---- MODULE Spec2Model ----
(***************************************************************************)
(* Meeting-room booking backend (AdityaMedidala/BookingModel).             *)
(*                                                                         *)
(* The relational store is the only authoritative state: the tables        *)
(* rooms, room_bookings and otp_storage.  Every HTTP handler is modelled   *)
(* from its code: its early returns are the guards, its SQL statements the *)
(* reads and writes of the tables.  Times are whole minutes.               *)
(***************************************************************************)
EXTENDS Integers, Sequences, FiniteSets, TLC

\* ---------------------------------------------------------------- bounds
\* room_bookings never loses a row; inserts stop at MaxBookings rows.
MaxBookings == 2

\* the clock stops at MaxNow minutes
MaxNow == 6

\* createRoom stops when rooms.id has reached MaxRoomId
MaxRoomId == 3

\* ------------------------------------------------------ program constants
\* validateDateRange: "allow 5 minutes grace period".
GraceMinutes == 5
\* sendOtp: "OTP valid for 5 minutes"
OtpValidMinutes == 5

\* ------------------------------------------------------------ input sets
\* request timestamps, in minutes
Times == {0, 1, 2}
OrganizerEmails == {"a@x.io"}
Emails == {"a@x.io", "b@x.io"}
RoomNames == {"Alpha", "Beta"}
\* room ids a request may name; 3 is the id of no room
RoomIdInputs == {1, 2, 3}
Participants == {1, 2}
\* event ids a request may name; those above Len(room_bookings) name no row
EventIdInputs == 1..MaxBookings
SendResults == {"sent", "failed", "skipped"}

VARIABLES
  rooms,          \* table rooms: set of rows [id, name, capacity, image]
  room_identity,  \* the last value of the IDENTITY column rooms.id
  room_bookings,  \* table room_bookings: sequence of rows, in insertion order
  otp_storage,    \* table otp_storage: set of rows
  now,            \* the wall clock, in minutes
  req,            \* the request being answered (NoReq between requests)
  res,            \* the HTTP response to it: [status, message]
  mail,           \* what became of its notification: none/sent/failed/skipped
  before,         \* room_bookings as the request found it
  otp_before,     \* otp_storage as the request found it
  files,          \* the upload directory public/uploads: set of file names
  logged,         \* what the callback of the request's fs.unlink logged
  proc,           \* concurrent requests: where each one is in its handler
  xlock           \* concurrent requests: rows each open transaction has written

vars == <<rooms, room_identity, room_bookings, otp_storage, now, req, res, mail, before,
          otp_before, files, logged, proc, xlock>>

\* A request: the fields of params and body that the handlers read.  For the
\* OTP routes organizer_email holds body.email.
NoReq == [op |-> "none", eventId |-> 0, room_id |-> 0, room_name |-> "",
          organizer_email |-> "", start_datetime |-> 0, end_datetime |-> 0,
          total_participants |-> 0, otp |-> 0]
NoRes == [status |-> 0, message |-> ""]

Response(s, m) == [status |-> s, message |-> m]

\* the requests in flight at once in the interleaved specification
Procs == {"p1", "p2"}
\* txn is the state of the request's sql.Transaction: none, open, committed
\* or rolledBack
IdleProc == [pc |-> "idle", req |-> NoReq, res |-> NoRes, mail |-> "none",
             newRoomName |-> "", txn |-> "none"]

\* -------------------------------------------------------------- requests
\* The booking form sends the name of the room it shows: room 1 is Alpha,
\* room 2 is Beta.  An inverted interval is represented by the empty one.
FormName(roomId) == IF roomId = 2 THEN "Beta" ELSE "Alpha"

CreateRequests ==
  {r \in [op : {"createBooking"}, eventId : {0}, room_id : RoomIdInputs,
          room_name : RoomNames, organizer_email : OrganizerEmails,
          start_datetime : Times, end_datetime : Times,
          total_participants : Participants, otp : {0}] :
     /\ r.room_name = FormName(r.room_id)
     /\ r.start_datetime <= r.end_datetime}

UpdateRequests ==
  {r \in [op : {"updateBooking"}, eventId : EventIdInputs, room_id : RoomIdInputs,
          room_name : {""}, organizer_email : OrganizerEmails,
          start_datetime : Times, end_datetime : Times,
          total_participants : Participants, otp : {0}] :
     r.start_datetime <= r.end_datetime}

CancelRequests ==
  [op : {"cancelBooking"}, eventId : EventIdInputs, room_id : {0},
   room_name : {""}, organizer_email : Emails,
   start_datetime : {0}, end_datetime : {0}, total_participants : {0},
   otp : {0}]

\* ------------------------------------------------------- route middleware
\* A date of a request is the minute it names, with the milliseconds past
\* that minute in start_ms and end_ms (none when the request has no such
\* field).  NoDate stands for a field the body does not have, BadDate for a
\* string new Date() cannot parse.
NoDate == -1
BadDate == -2
Millis(r, field) == IF field \in DOMAIN r THEN r[field] ELSE 0

\* sql.DateTime keeps 1/300 s: the driver binds Math.round(ms / (3 + 1/3))
\* ticks past the second
DateTimeTicks(ms) == (3 * ms + 5) \div 10

\* the milliseconds the requests of the model carry: those that bind as no
\* tick, so that the DATETIME bound for the Date is its minute
RequestMillis == {ms \in 0..2 : DateTimeTicks(ms) = 0}
sqlDateTime(minute, ms) == CHOOSE v \in {minute} : DateTimeTicks(ms) = 0

\* .input('start_datetime', sql.DateTime, bookingStartUtc) and its end
startDateTime(r) == sqlDateTime(r.start_datetime, Millis(r, "start_ms"))
endDateTime(r) == sqlDateTime(r.end_datetime, Millis(r, "end_ms"))

\* startTime >= endTime, of two Dates
NotBefore(r) ==
  \/ r.start_datetime > r.end_datetime
  \/ /\ r.start_datetime = r.end_datetime
     /\ Millis(r, "start_ms") >= Millis(r, "end_ms")

\* validateDateRange: the message of its 400 response, or "next".
validateDateRange(r, clock) ==
  IF r.start_datetime = NoDate \/ r.end_datetime = NoDate
    THEN "next"
  ELSE IF r.start_datetime = BadDate \/ r.end_datetime = BadDate
    THEN "Invalid date format. Please use ISO date format."
  ELSE IF NotBefore(r)
    THEN "Start date/time must be before end date/time"
  ELSE IF r.start_datetime < clock - GraceMinutes
    THEN "Cannot create bookings in the past"
  ELSE "next"

\* the inline middleware of POST /create and PUT /:eventId
validateParticipants(r) ==
  IF r.total_participants < 1
    THEN "Total participants must be at least 1."
  ELSE "next"

\* --------------------------------------------------------- SQL statements
\* SELECT capacity, name FROM rooms WHERE id = @roomId
roomCheck(rms, roomId) == {rm \in rms : rm.id = roomId}

\* mutants of the overlap predicate: closed intervals; only a booking that
\* starts inside the requested slot counts
OverlapsSlot_Closed(b, roomId, s, e) ==
  /\ b.room_id = roomId
  /\ b.status = "confirmed"
  /\ b.start_datetime <= e
  /\ b.end_datetime >= s
OverlapsSlot_StartInside(b, roomId, s, e) ==
  /\ b.room_id = roomId
  /\ b.status = "confirmed"
  /\ b.start_datetime < e
  /\ b.start_datetime >= s
\* mutant: a cancelled booking keeps its slot
OverlapsSlot_AnyStatus(b, roomId, s, e) ==
  /\ b.room_id = roomId
  /\ b.start_datetime < e
  /\ b.end_datetime > s

\* the WHERE clause of both availability checks:
\* room_id = @roomId AND status = 'confirmed'
\* AND (start_datetime < @end_datetime AND end_datetime > @start_datetime)
OverlapsSlot(b, roomId, s, e) ==
  /\ b.room_id = roomId
  /\ b.status = "confirmed"
  /\ b.start_datetime < e
  /\ b.end_datetime > s

\* createBooking: SELECT COUNT(*) ... WHERE room_id AND confirmed AND overlap
availabilityCheck(bookings, roomId, s, e) ==
  Cardinality({i \in DOMAIN bookings : OverlapsSlot(bookings[i], roomId, s, e)})

\* createBooking: if (total_participants > roomCapacity)
exceedsCapacity_OffByOne(total, capacity) == total > capacity + 1
exceedsCapacity(total, capacity) == total > capacity

\* crypto.randomUUID(): an identifier no row has
randomUUID(bookings) == Len(bookings) + 1

\* createBooking: the inserted row
insertedRow(bookings, r) ==
  [event_id |-> randomUUID(bookings),
   room_id |-> r.room_id,
   room_name |-> r.room_name,
   organizer_email |-> r.organizer_email,
   start_datetime |-> startDateTime(r),
   end_datetime |-> endDateTime(r),
   total_participants |-> r.total_participants,
   status |-> "confirmed"]

\* if (!room_id || !subject || !organizer_email || !start_datetime ||
\*     !end_datetime || !total_participants)
missingFields(r) ==
  \/ r.room_id = 0
  \/ r.organizer_email = ""
  \/ r.start_datetime = NoDate
  \/ r.end_datetime = NoDate
  \/ r.total_participants = 0

\* ---------------------------------------------------------- createBooking
\* mutant: the insert is taken back when the notification fails
createBooking_UndoesOnMailFailure(bookings, rms, r, send) ==
  LET found == roomCheck(rms, r.room_id) IN
  IF missingFields(r)
    THEN [res |-> Response(400, "Missing required booking fields."),
          rows |-> bookings, mail |-> "none"]
  ELSE IF found = {}
    THEN [res |-> Response(404, "Room not found."),
          rows |-> bookings, mail |-> "none"]
  ELSE IF exceedsCapacity(r.total_participants, (CHOOSE rm \in found : TRUE).capacity)
    THEN [res |-> Response(400, "Total participants exceed room capacity"),
          rows |-> bookings, mail |-> "none"]
  ELSE IF availabilityCheck(bookings, r.room_id, startDateTime(r), endDateTime(r)) > 0
    THEN [res |-> Response(409, "The room is already booked for the selected time slot."),
          rows |-> bookings, mail |-> "none"]
  ELSE IF send = "failed"
    THEN [res |-> Response(500, "Failed to send email notification."),
          rows |-> bookings, mail |-> send]
  ELSE [res |-> Response(201, "Booking created and confirmed successfully!"),
        rows |-> Append(bookings, insertedRow(bookings, r)),
        mail |-> send]

\* The controller: [res, rows, mail] from the tables, the request and the
\* outcome the mail gateway would give.  The catch block that answers a
\* failed send issues no statement: the inserted row stays.
createBooking(bookings, rms, r, send) ==
  LET found == roomCheck(rms, r.room_id) IN
  IF missingFields(r)
    THEN [res |-> Response(400, "Missing required booking fields."),
          rows |-> bookings, mail |-> "none"]
  ELSE IF found = {}
    THEN [res |-> Response(404, "Room not found."),
          rows |-> bookings, mail |-> "none"]
  ELSE IF exceedsCapacity(r.total_participants, (CHOOSE rm \in found : TRUE).capacity)
    THEN [res |-> Response(400, "Total participants exceed room capacity"),
          rows |-> bookings, mail |-> "none"]
  ELSE IF availabilityCheck(bookings, r.room_id, startDateTime(r), endDateTime(r)) > 0
    THEN [res |-> Response(409, "The room is already booked for the selected time slot."),
          rows |-> bookings, mail |-> "none"]
  ELSE [res |-> IF send = "failed"
                  THEN Response(500, "Failed to send email notification.")
                  ELSE Response(201, "Booking created and confirmed successfully!"),
        rows |-> Append(bookings, insertedRow(bookings, r)),
        mail |-> send]

\* POST /create: validateDateRange, the inline checks, then the controller
postCreate(bookings, rms, r, clock, send) ==
  IF validateDateRange(r, clock) # "next"
    THEN [res |-> Response(400, validateDateRange(r, clock)),
          rows |-> bookings, mail |-> "none"]
  ELSE IF validateParticipants(r) # "next"
    THEN [res |-> Response(400, validateParticipants(r)),
          rows |-> bookings, mail |-> "none"]
  ELSE createBooking(bookings, rms, r, send)

CreateBooking(requests) ==
  \E r \in requests, send \in SendResults :
    LET out == postCreate(room_bookings, rooms, r, now, send) IN
    /\ req = NoReq
    /\ Len(out.rows) <= MaxBookings
    /\ before' = room_bookings
    /\ req' = r
    /\ res' = out.res
    /\ mail' = out.mail
    /\ room_bookings' = out.rows
    /\ UNCHANGED <<logged, otp_before, files, rooms, room_identity, otp_storage, now, proc, xlock>>

\* ---------------------------------------------------------- updateBooking
\* mutant: the status filter is missing
existingBooking_AnyStatus(bookings, eventId) ==
  {i \in DOMAIN bookings : bookings[i].event_id = eventId}

\* SELECT * FROM room_bookings WHERE event_id = @eventId AND status = 'confirmed'
existingBooking(bookings, eventId) ==
  {i \in DOMAIN bookings :
     bookings[i].event_id = eventId /\ bookings[i].status = "confirmed"}

\* updateBooking: if (total_participants > newRoomCapacity)
newExceedsCapacity_OffByOne(total, capacity) == total > capacity + 1
newExceedsCapacity(total, capacity) == total > capacity

\* mutants: the booking itself is not excluded; the slot's bounds are swapped
newAvailabilityCheck_CountsSelf(bookings, roomId, s, e, eventId) ==
  Cardinality({i \in DOMAIN bookings : OverlapsSlot(bookings[i], roomId, s, e)})
newAvailabilityCheck_SwappedBounds(bookings, roomId, s, e, eventId) ==
  Cardinality({i \in DOMAIN bookings :
                 /\ bookings[i].event_id # eventId
                 /\ OverlapsSlot(bookings[i], roomId, e, s)})

\* SELECT COUNT(*) ... AND event_id != @currentEventId AND overlap
newAvailabilityCheck(bookings, roomId, s, e, eventId) ==
  Cardinality({i \in DOMAIN bookings :
                 /\ bookings[i].event_id # eventId
                 /\ OverlapsSlot(bookings[i], roomId, s, e)})

\* rowsAffected[0] of an UPDATE ... WHERE event_id = @eventId
rowsAffected(bookings, eventId) ==
  Cardinality({i \in DOMAIN bookings : bookings[i].event_id = eventId})

\* UPDATE room_bookings SET ... WHERE event_id = @updEventId
updateRows(bookings, r, newRoomName) ==
  [i \in DOMAIN bookings |->
     IF bookings[i].event_id = r.eventId
       THEN [bookings[i] EXCEPT
               !.room_id = r.room_id,
               !.room_name = newRoomName,
               !.organizer_email = r.organizer_email,
               !.start_datetime = startDateTime(r),
               !.end_datetime = endDateTime(r),
               !.total_participants = r.total_participants]
       ELSE bookings[i]]

updateBooking(bookings, rms, r, send) ==
  LET found == roomCheck(rms, r.room_id) IN
  IF missingFields(r)
    THEN [res |-> Response(400, "Missing required fields for booking update."),
          rows |-> bookings, mail |-> "none"]
  ELSE IF existingBooking(bookings, r.eventId) = {}
    THEN [res |-> Response(404, "Original booking not found or already cancelled."),
          rows |-> bookings, mail |-> "none"]
  ELSE IF found = {}
    THEN [res |-> Response(404, "The specified room could not be found."),
          rows |-> bookings, mail |-> "none"]
  ELSE IF newExceedsCapacity(r.total_participants, (CHOOSE rm \in found : TRUE).capacity)
    THEN [res |-> Response(400, "New total participants exceed room capacity"),
          rows |-> bookings, mail |-> "none"]
  ELSE IF newAvailabilityCheck(bookings, r.room_id, startDateTime(r),
                               endDateTime(r), r.eventId) > 0
    THEN [res |-> Response(409, "The room is already booked for the new time slot (conflict detected)."),
          rows |-> bookings, mail |-> "none"]
  ELSE IF rowsAffected(bookings, r.eventId) = 0
    THEN [res |-> Response(404, "Booking to update not found."),
          rows |-> bookings, mail |-> "none"]
  ELSE [res |-> IF send = "failed"
                  THEN Response(500, "Failed to send email notification.")
                  ELSE Response(200, "Booking updated successfully!"),
        rows |-> updateRows(bookings, r, (CHOOSE rm \in found : TRUE).name),
        mail |-> send]

\* PUT /:eventId
putUpdate(bookings, rms, r, clock, send) ==
  IF validateDateRange(r, clock) # "next"
    THEN [res |-> Response(400, validateDateRange(r, clock)),
          rows |-> bookings, mail |-> "none"]
  ELSE IF validateParticipants(r) # "next"
    THEN [res |-> Response(400, validateParticipants(r)),
          rows |-> bookings, mail |-> "none"]
  ELSE updateBooking(bookings, rms, r, send)

UpdateBooking(requests) ==
  \E r \in requests, send \in SendResults :
    LET out == putUpdate(room_bookings, rooms, r, now, send) IN
    /\ req = NoReq
    /\ before' = room_bookings
    /\ req' = r
    /\ res' = out.res
    /\ mail' = out.mail
    /\ room_bookings' = out.rows
    /\ UNCHANGED <<logged, otp_before, files, rooms, room_identity, otp_storage, now, proc, xlock>>

\* ---------------------------------------------------------- cancelBooking
\* mutant: the organizer_email filter is missing
bookingToCancel_AnyEmail(bookings, eventId, email) ==
  {i \in DOMAIN bookings :
     bookings[i].event_id = eventId /\ bookings[i].status = "confirmed"}

\* mutant: the SELECT joins rooms, so a booking whose room is gone is not found
bookingToCancel_JoinsRooms(bookings, eventId, email) ==
  {i \in DOMAIN bookings :
     /\ bookings[i].event_id = eventId
     /\ bookings[i].organizer_email = email
     /\ bookings[i].status = "confirmed"
     /\ \E rm \in rooms : rm.id = bookings[i].room_id}

\* SELECT ... WHERE event_id AND organizer_email AND status = 'confirmed'
bookingToCancel(bookings, eventId, email) ==
  {i \in DOMAIN bookings :
     /\ bookings[i].event_id = eventId
     /\ bookings[i].organizer_email = email
     /\ bookings[i].status = "confirmed"}

\* UPDATE room_bookings SET status = 'cancelled' ... WHERE event_id
cancelRows(bookings, eventId) ==
  [i \in DOMAIN bookings |->
     IF bookings[i].event_id = eventId
       THEN [bookings[i] EXCEPT !.status = "cancelled"]
       ELSE bookings[i]]

\* mutant: a booking of another organizer gets an answer of its own
cancelBooking_LeaksMismatch(bookings, r, send) ==
  IF r.eventId = 0 \/ r.organizer_email = ""
    THEN [res |-> Response(400, "Event ID and organizer email are required for cancellation."),
          rows |-> bookings, mail |-> "none"]
  ELSE IF bookingToCancel(bookings, r.eventId, r.organizer_email) = {}
    THEN [res |-> IF existingBooking(bookings, r.eventId) # {}
                    THEN Response(403, "This booking belongs to another organizer.")
                    ELSE Response(404, "Booking not found or not eligible for cancellation by this email."),
          rows |-> bookings, mail |-> "none"]
  ELSE [res |-> IF send = "failed"
                  THEN Response(500, "Failed to send email notification.")
                  ELSE Response(200, "Booking cancelled successfully."),
        rows |-> cancelRows(bookings, r.eventId),
        mail |-> send]

cancelBooking(bookings, r, send) ==
  IF r.eventId = 0 \/ r.organizer_email = ""
    THEN [res |-> Response(400, "Event ID and organizer email are required for cancellation."),
          rows |-> bookings, mail |-> "none"]
  ELSE IF bookingToCancel(bookings, r.eventId, r.organizer_email) = {}
    THEN [res |-> Response(404, "Booking not found or not eligible for cancellation by this email."),
          rows |-> bookings, mail |-> "none"]
  ELSE IF rowsAffected(bookings, r.eventId) = 0
    THEN [res |-> Response(400, "Failed to update booking status to cancelled."),
          rows |-> bookings, mail |-> "none"]
  ELSE [res |-> IF send = "failed"
                  THEN Response(500, "Failed to send email notification.")
                  ELSE Response(200, "Booking cancelled successfully."),
        rows |-> cancelRows(bookings, r.eventId),
        mail |-> send]

CancelBooking(requests) ==
  \E r \in requests, send \in SendResults :
    LET out == cancelBooking(room_bookings, r, send) IN
    /\ req = NoReq
    /\ before' = room_bookings
    /\ req' = r
    /\ res' = out.res
    /\ mail' = out.mail
    /\ room_bookings' = out.rows
    /\ UNCHANGED <<logged, otp_before, files, rooms, room_identity, otp_storage, now, proc, xlock>>

\* ----------------------------------------------- admin: createBookingAdmin
\* POST /api/admin/bookings has no validation middleware of its own.
AdminCreateRequests ==
  [op : {"createBookingAdmin"}, eventId : {0}, room_id : {1, 3},
   room_name : {"Alpha"}, organizer_email : OrganizerEmails,
   start_datetime : {0}, end_datetime : {1, 2},
   total_participants : Participants, otp : {0}]

\* The controller checks the required fields and inserts.  The file never
\* requires 'crypto': crypto.randomUUID() is the runtime's global where the
\* runtime has one (hasCrypto), and a ReferenceError caught as a 500 elsewhere.
createBookingAdmin(bookings, r, hasCrypto) ==
  IF r.room_name = "" \/ r.total_participants = 0
    THEN [res |-> Response(400, "Missing required fields for admin booking."),
          rows |-> bookings, mail |-> "none"]
  ELSE IF ~hasCrypto
    THEN [res |-> Response(500, "crypto is not defined"),
          rows |-> bookings, mail |-> "none"]
  ELSE [res |-> Response(201, "Booking created by admin successfully."),
        rows |-> Append(bookings, insertedRow(bookings, r)),
        mail |-> "none"]

CreateBookingAdmin(requests) ==
  \E r \in requests, hasCrypto \in BOOLEAN :
    LET out == createBookingAdmin(room_bookings, r, hasCrypto) IN
    /\ req = NoReq
    /\ Len(out.rows) <= MaxBookings
    /\ before' = room_bookings
    /\ req' = r
    /\ res' = out.res
    /\ mail' = out.mail
    /\ room_bookings' = out.rows
    /\ UNCHANGED <<logged, otp_before, files, rooms, room_identity, otp_storage, now, proc, xlock>>

\* ---------------------------------------------------- admin: deleteBooking
\* DELETE /api/admin/bookings/:eventId
AdminDeleteRequests ==
  [op : {"deleteBooking"}, eventId : EventIdInputs, room_id : {0},
   room_name : {""}, organizer_email : {""},
   start_datetime : {0}, end_datetime : {0}, total_participants : {0},
   otp : {0}]

\* The admin controller's sendEmail throws when its Graph client was not
\* configured at startup, and rethrows the client's error when the post fails.
AdminSendResults == {"sent", "failed", "unconfigured"}

\* mutant: the status filter is missing
adminBookingToCancel_AnyStatus(bookings, eventId) ==
  {i \in DOMAIN bookings : bookings[i].event_id = eventId}

\* SELECT ... FROM room_bookings WHERE event_id = @eventId AND status = 'confirmed'
adminBookingToCancel(bookings, eventId) ==
  {i \in DOMAIN bookings :
     bookings[i].event_id = eventId /\ bookings[i].status = "confirmed"}

\* mutant: the row is deleted
adminCancelRows_Deletes(bookings, eventId) ==
  SelectSeq(bookings, LAMBDA b : b.event_id # eventId)

\* UPDATE room_bookings SET status = 'cancelled' ... WHERE event_id
adminCancelRows(bookings, eventId) ==
  [i \in DOMAIN bookings |->
     IF bookings[i].event_id = eventId
       THEN [bookings[i] EXCEPT !.status = "cancelled"]
       ELSE bookings[i]]

deleteBooking(bookings, r, send) ==
  IF adminBookingToCancel(bookings, r.eventId) = {}
    THEN [res |-> Response(404, "Booking not found or already cancelled."),
          rows |-> bookings, mail |-> "none"]
  ELSE IF rowsAffected(bookings, r.eventId) = 0
    THEN [res |-> Response(400, "Failed to update booking status to cancelled."),
          rows |-> bookings, mail |-> "none"]
  ELSE [res |-> IF send = "unconfigured"
                  THEN Response(500, "Email service is not configured for admin functions.")
                ELSE IF send = "failed"
                  THEN Response(500, "sendMail request failed")
                ELSE Response(200, "Booking cancelled by admin successfully."),
        rows |-> adminCancelRows(bookings, r.eventId),
        mail |-> send]

DeleteBooking(requests) ==
  \E r \in requests, send \in AdminSendResults :
    LET out == deleteBooking(room_bookings, r, send) IN
    /\ req = NoReq
    /\ before' = room_bookings
    /\ req' = r
    /\ res' = out.res
    /\ mail' = out.mail
    /\ room_bookings' = out.rows
    /\ UNCHANGED <<logged, otp_before, files, rooms, room_identity, otp_storage, now, proc, xlock>>

\* ------------------------------------------------------------------ rooms
\* A room request: room_id holds params.id, room_name body.name, capacity
\* body.capacity and file the name multer gave the uploaded image ("" when
\* the form carried none).
RoomRequest(op, id, name, capacity) ==
  [op |-> op, eventId |-> 0, room_id |-> id, room_name |-> name,
   organizer_email |-> "", start_datetime |-> 0, end_datetime |-> 0,
   total_participants |-> 0, otp |-> 0, capacity |-> capacity, file |-> ""]

CreateRoomRequests ==
  {RoomRequest("createRoom", 0, "Gamma", c) : c \in {0, 2}}
UpdateRoomRequests ==
  {RoomRequest("updateRoom", id, "Alpha", 2) : id \in {1, 3}}
DeleteRoomRequests ==
  {RoomRequest("deleteRoom", 2, "", 0)}

\* the column rooms.image: NULL, or `/uploads/${req.file.filename}`
NoImage == [dir |-> "", filename |-> ""]
UploadsImage(f) == [dir |-> "/uploads/", filename |-> f]

\* what the statements of a room handler meet: they run, or one of them throws
StoreOutcomes == {"ok", "error"}

\* upload.single('image'): the file is in the upload directory before the
\* handler runs
upload(fs, r) == IF r.file = "" THEN fs ELSE fs \cup {r.file}

\* fs.unlink(path, callback): the file goes, or the callback logs the error
unlink(fs, f, unlinked, message) ==
  IF unlinked
    THEN [files |-> fs \ {f}, logged |-> "none"]
    ELSE [files |-> fs, logged |-> message]

\* no fs.unlink is called
Kept(fs) == [files |-> fs, logged |-> "none"]

\* if (req.file) fs.unlink(req.file.path, ...)
unlinkUpload(fs, r, unlinked, message) ==
  IF r.file # "" THEN unlink(fs, r.file, unlinked, message) ELSE Kept(fs)

\* if (req.file && oldImagePath && oldImagePath.startsWith('/uploads/'))
\*   fs.unlink(fullOldImagePath, ...)
unlinkOldImage(fs, r, oldImagePath, unlinked) ==
  IF r.file # "" /\ oldImagePath.dir = "/uploads/"
    THEN unlink(fs, oldImagePath.filename, unlinked,
                "Error deleting old room image file:")
    ELSE Kept(fs)

\* if (roomToDelete.image && roomToDelete.image.startsWith('/uploads/'))
\*   fs.unlink(imageFullPath, ...)
unlinkImage(fs, image, unlinked) ==
  IF image.dir = "/uploads/"
    THEN unlink(fs, image.filename, unlinked, "Error deleting room image file:")
    ELSE Kept(fs)

\* INSERT INTO rooms ...; SELECT SCOPE_IDENTITY() AS id
createRoom(rms, identity, fs, r, store, unlinked) ==
  LET imagePath == IF r.file # "" THEN UploadsImage(r.file) ELSE NoImage IN
  IF r.room_name = "" \/ r.capacity = 0
    THEN [res |-> Response(400, "Room name and capacity are required."),
          rooms |-> rms, identity |-> identity,
          fs |-> unlinkUpload(fs, r, unlinked,
                              "Error deleting uploaded file on validation fail:")]
  ELSE IF store = "error"
    THEN [res |-> Response(500, "Failed to create room."),
          rooms |-> rms, identity |-> identity,
          fs |-> unlinkUpload(fs, r, unlinked,
                              "Error deleting newly uploaded file on DB error:")]
  ELSE [res |-> Response(201, "Room created successfully."),
        rooms |-> rms \cup {[id |-> identity + 1, name |-> r.room_name,
                             capacity |-> r.capacity, image |-> imagePath]},
        identity |-> identity + 1,
        fs |-> Kept(fs)]

\* UPDATE rooms SET name, capacity, image WHERE id: image is the upload's path,
\* or the old one when the form carried no file
updatedRooms(rms, r, oldImagePath) ==
  {IF rm.id = r.room_id
     THEN [rm EXCEPT !.name = r.room_name, !.capacity = r.capacity,
                     !.image = IF r.file # "" THEN UploadsImage(r.file)
                                              ELSE oldImagePath]
     ELSE rm : rm \in rms}

\* mutant: the previous image goes before the transaction is known to commit
updateRoom_UnlinksFirst(rms, fs, r, store, unlinked) ==
  LET found == roomCheck(rms, r.room_id)
      oldImagePath == (CHOOSE rm \in found : TRUE).image IN
  IF r.room_name = "" \/ r.capacity = 0
    THEN [res |-> Response(400, "Room name and capacity are required for update."),
          rooms |-> rms,
          fs |-> unlinkUpload(fs, r, unlinked,
                              "Error deleting uploaded file on validation fail:")]
  ELSE IF store = "error"
    THEN [res |-> Response(500, "Failed to update room."),
          rooms |-> rms,
          fs |-> unlinkUpload(IF found # {}
                                THEN unlinkOldImage(fs, r, oldImagePath, TRUE).files
                                ELSE fs,
                              r, unlinked,
                              "Error deleting newly uploaded file on DB error:")]
  ELSE IF found = {}
    THEN [res |-> Response(404, "Room not found for update."),
          rooms |-> rms, fs |-> Kept(fs)]
  ELSE [res |-> Response(200, "Room updated successfully."),
        rooms |-> updatedRooms(rms, r, oldImagePath),
        fs |-> unlinkOldImage(fs, r, oldImagePath, unlinked)]

\* SELECT image FROM rooms WHERE id; UPDATE rooms SET name, capacity, image
\* WHERE id, in one transaction; after the commit the old image is unlinked.
\* A statement that throws leaves the row as it was and the catch block
\* unlinks the upload; the two 404 replies unlink nothing.
updateRoom(rms, fs, r, store, unlinked) ==
  LET found == roomCheck(rms, r.room_id)
      oldImagePath == (CHOOSE rm \in found : TRUE).image IN
  IF r.room_name = "" \/ r.capacity = 0
    THEN [res |-> Response(400, "Room name and capacity are required for update."),
          rooms |-> rms,
          fs |-> unlinkUpload(fs, r, unlinked,
                              "Error deleting uploaded file on validation fail:")]
  ELSE IF store = "error"
    THEN [res |-> Response(500, "Failed to update room."),
          rooms |-> rms,
          fs |-> unlinkUpload(fs, r, unlinked,
                              "Error deleting newly uploaded file on DB error:")]
  ELSE IF found = {}
    THEN [res |-> Response(404, "Room not found for update."),
          rooms |-> rms, fs |-> Kept(fs)]
  ELSE [res |-> Response(200, "Room updated successfully."),
        rooms |-> updatedRooms(rms, r, oldImagePath),
        fs |-> unlinkOldImage(fs, r, oldImagePath, unlinked)]

\* mutant: a failed unlink fails the request
deleteRoom_FailsOnUnlink(rms, fs, r, store, unlinked) ==
  LET found == roomCheck(rms, r.room_id)
      image == (CHOOSE rm \in found : TRUE).image IN
  IF store = "error"
    THEN [res |-> Response(500, "Failed to delete room."),
          rooms |-> rms, fs |-> Kept(fs)]
  ELSE IF found = {}
    THEN [res |-> Response(404, "Room not found."), rooms |-> rms, fs |-> Kept(fs)]
  ELSE [res |-> IF unlinkImage(fs, image, unlinked).logged # "none"
                  THEN Response(500, "Failed to delete room.")
                  ELSE Response(200, "Room deleted successfully."),
        rooms |-> {rm \in rms : rm.id # r.room_id},
        fs |-> unlinkImage(fs, image, unlinked)]

\* SELECT image FROM rooms WHERE id; DELETE FROM rooms WHERE id; then the
\* image is unlinked.  The handler sends no statement on room_bookings.
deleteRoom(rms, fs, r, store, unlinked) ==
  LET found == roomCheck(rms, r.room_id)
      image == (CHOOSE rm \in found : TRUE).image IN
  IF store = "error"
    THEN [res |-> Response(500, "Failed to delete room."),
          rooms |-> rms, fs |-> Kept(fs)]
  ELSE IF found = {}
    THEN [res |-> Response(404, "Room not found."), rooms |-> rms, fs |-> Kept(fs)]
  ELSE [res |-> Response(200, "Room deleted successfully."),
        rooms |-> {rm \in rms : rm.id # r.room_id},
        fs |-> unlinkImage(fs, image, unlinked)]

\* multer names the upload with the time and a random number: the name is
\* that of no file in the directory and of no image a row refers to
FreshUpload(r) ==
  r.file = "" \/ (r.file \notin files /\ \A rm \in rooms : rm.image.filename # r.file)

CreateRoom(requests, stores, unlinks) ==
  \E r \in requests, store \in stores, unlinked \in unlinks :
    LET out == createRoom(rooms, room_identity, upload(files, r), r, store, unlinked) IN
    /\ req = NoReq
    /\ FreshUpload(r)
    /\ out.identity <= MaxRoomId
    /\ before' = room_bookings
    /\ req' = r
    /\ res' = out.res
    /\ mail' = "none"
    /\ rooms' = out.rooms
    /\ room_identity' = out.identity
    /\ files' = out.fs.files
    /\ logged' = out.fs.logged
    /\ UNCHANGED <<otp_before, room_bookings, otp_storage, now, proc, xlock>>

UpdateRoom(requests, stores, unlinks) ==
  \E r \in requests, store \in stores, unlinked \in unlinks :
    LET out == updateRoom(rooms, upload(files, r), r, store, unlinked) IN
    /\ req = NoReq
    /\ FreshUpload(r)
    /\ before' = room_bookings
    /\ req' = r
    /\ res' = out.res
    /\ mail' = "none"
    /\ rooms' = out.rooms
    /\ files' = out.fs.files
    /\ logged' = out.fs.logged
    /\ UNCHANGED <<otp_before, room_identity, room_bookings, otp_storage, now, proc, xlock>>

DeleteRoom(requests, stores, unlinks) ==
  \E r \in requests, store \in stores, unlinked \in unlinks :
    LET out == deleteRoom(rooms, files, r, store, unlinked) IN
    /\ req = NoReq
    /\ before' = room_bookings
    /\ req' = r
    /\ res' = out.res
    /\ mail' = "none"
    /\ rooms' = out.rooms
    /\ files' = out.fs.files
    /\ logged' = out.fs.logged
    /\ UNCHANGED <<otp_before, room_identity, room_bookings, otp_storage, now, proc, xlock>>

\* -------------------------------------------------------------------- OTP
\* mutant: crypto.randomInt(0, 999999)
OtpCodes_FromZero == {0, 999998}

\* crypto.randomInt(100000, 999999): the least value and the greatest
OtpCodes == {100000, 999998}

SendOtpRequests ==
  [op : {"sendOtp"}, eventId : {0}, room_id : {0}, room_name : {""},
   organizer_email : Emails, start_datetime : {0}, end_datetime : {0},
   total_participants : {0}, otp : {0}]

\* 99999 stands for a body.otp that is not a string of six digits
VerifyOtpRequests ==
  [op : {"verifyOtp"}, eventId : {0}, room_id : {0}, room_name : {""},
   organizer_email : Emails, start_datetime : {0}, end_datetime : {0},
   total_participants : {0}, otp : OtpCodes \cup {99999}]

\* validateOtp: the message of its 400 response, or "next"
validateOtp(r) ==
  IF r.otp < 100000 \/ r.otp > 999999
    THEN "OTP must be a 6-digit number."
    ELSE "next"

\* mutant: the statement is a plain INSERT
mergeOtp_AlwaysInserts(storage, email, otp, clock) ==
  storage \cup {[email |-> email, otp |-> otp,
                 expires_at |-> clock + OtpValidMinutes,
                 created_at |-> clock, is_verified |-> FALSE]}

\* mutant: WHEN MATCHED leaves is_verified as it is
mergeOtp_KeepsVerified(storage, email, otp, clock) ==
  IF \E t \in storage : t.email = email
    THEN {IF t.email = email
            THEN [t EXCEPT !.otp = otp, !.expires_at = clock + OtpValidMinutes,
                           !.created_at = clock]
            ELSE t : t \in storage}
    ELSE storage \cup {[email |-> email, otp |-> otp,
                        expires_at |-> clock + OtpValidMinutes,
                        created_at |-> clock, is_verified |-> FALSE]}

\* MERGE otp_storage ... WHEN MATCHED THEN UPDATE ... WHEN NOT MATCHED THEN INSERT
mergeOtp(storage, email, otp, clock) ==
  LET fresh == [email |-> email, otp |-> otp,
                expires_at |-> clock + OtpValidMinutes,
                created_at |-> clock, is_verified |-> FALSE] IN
  IF \E t \in storage : t.email = email
    THEN {IF t.email = email THEN fresh ELSE t : t \in storage}
    ELSE storage \cup {fresh}

\* mutant: the email goes out first and the record is written once it is sent
sendOtp_SendsFirst(storage, r, otp, clock, send) ==
  [res |-> IF send = "failed"
             THEN Response(500, "Failed to send OTP.")
             ELSE Response(200, "OTP sent successfully."),
   otps |-> IF send = "failed" THEN storage
            ELSE mergeOtp(storage, r.organizer_email, otp, clock),
   mail |-> send]

\* sendOtp: write the record, then send the email
sendOtp(storage, r, otp, clock, send) ==
  [res |-> IF send = "failed"
             THEN Response(500, "Failed to send OTP.")
             ELSE Response(200, "OTP sent successfully."),
   otps |-> mergeOtp(storage, r.organizer_email, otp, clock),
   mail |-> send]

SendOtp(requests) ==
  \E r \in requests, otp \in OtpCodes, send \in {"sent", "failed"} :
    LET out == sendOtp(otp_storage, r, otp, now, send) IN
    /\ req = NoReq
    /\ before' = room_bookings
    /\ req' = r
    /\ res' = out.res
    /\ mail' = out.mail
    /\ otp_storage' = out.otps
    /\ otp_before' = otp_storage
    /\ UNCHANGED <<logged, files, rooms, room_identity, room_bookings, now, proc, xlock>>

\* mutant: a record is still good at the minute it expires
validOtp_ExpiryInclusive(storage, email, otp, clock) ==
  {t \in storage : t.email = email /\ t.otp = otp /\ t.expires_at >= clock}

\* SELECT TOP 1 * FROM otp_storage
\* WHERE email = @email AND otp = @otp AND expires_at > @currentTime
validOtp(storage, email, otp, clock) ==
  {t \in storage : t.email = email /\ t.otp = otp /\ t.expires_at > clock}

\* UPDATE otp_storage SET is_verified = 1 WHERE email = @email AND otp = @otp
markVerified(storage, email, otp) ==
  {IF t.email = email /\ t.otp = otp
     THEN [t EXCEPT !.is_verified = TRUE] ELSE t : t \in storage}

\* mutant: an expired code is told apart from a wrong one
verifyOtp_TellsExpired(storage, r, clock) ==
  IF validOtp(storage, r.organizer_email, r.otp, clock) # {}
    THEN [res |-> Response(200, "OTP verified successfully."),
          otps |-> markVerified(storage, r.organizer_email, r.otp)]
  ELSE IF \E t \in storage : t.email = r.organizer_email /\ t.otp = r.otp
    THEN [res |-> Response(400, "OTP has expired."), otps |-> storage]
  ELSE [res |-> Response(400, "Invalid or expired OTP."), otps |-> storage]

\* mutant: a code verifies once; a verified record is refused
verifyOtp_OneShot(storage, r, clock) ==
  IF \E t \in validOtp(storage, r.organizer_email, r.otp, clock) : ~t.is_verified
    THEN [res |-> Response(200, "OTP verified successfully."),
          otps |-> markVerified(storage, r.organizer_email, r.otp)]
    ELSE [res |-> Response(400, "Invalid or expired OTP."),
          otps |-> storage]

\* verifyOtp: SELECT the unexpired record of the pair, then mark it verified
verifyOtp(storage, r, clock) ==
  IF validOtp(storage, r.organizer_email, r.otp, clock) # {}
    THEN [res |-> Response(200, "OTP verified successfully."),
          otps |-> markVerified(storage, r.organizer_email, r.otp)]
    ELSE [res |-> Response(400, "Invalid or expired OTP."),
          otps |-> storage]

\* POST /verify: validateOtp, then the controller
postVerify(storage, r, clock) ==
  IF validateOtp(r) # "next"
    THEN [res |-> Response(400, validateOtp(r)), otps |-> storage]
    ELSE verifyOtp(storage, r, clock)

VerifyOtp(requests) ==
  \E r \in requests :
    LET out == postVerify(otp_storage, r, now) IN
    /\ req = NoReq
    /\ before' = room_bookings
    /\ req' = r
    /\ res' = out.res
    /\ mail' = "none"
    /\ otp_storage' = out.otps
    /\ otp_before' = otp_storage
    /\ UNCHANGED <<logged, files, rooms, room_identity, room_bookings, now, proc, xlock>>

\* GET /status/:email and POST /cleanup-expired carry nothing but the address
StatusRequests ==
  [op : {"checkVerificationStatus"}, eventId : {0}, room_id : {0}, room_name : {""},
   organizer_email : Emails, start_datetime : {0}, end_datetime : {0},
   total_participants : {0}, otp : {0}]
CleanupRequests == {[NoReq EXCEPT !.op = "cleanupExpiredOtps"]}

\* mutant: a verification outlives its code
verifiedOtp_IgnoresExpiry(storage, email, clock) ==
  {t \in storage : t.email = email /\ t.is_verified}

\* SELECT TOP 1 * FROM otp_storage
\* WHERE email = @email AND expires_at > @currentTime AND is_verified = 1
verifiedOtp(storage, email, clock) ==
  {t \in storage : t.email = email /\ t.expires_at > clock /\ t.is_verified}

\* checkVerificationStatus: { success: true, isVerified, verifiedAt }
checkVerificationStatus(storage, r, clock) ==
  [status |-> 200, message |-> "",
   isVerified |-> verifiedOtp(storage, r.organizer_email, clock) # {}]

CheckVerificationStatus(requests) ==
  \E r \in requests :
    /\ req = NoReq
    /\ before' = room_bookings
    /\ otp_before' = otp_storage
    /\ req' = r
    /\ res' = checkVerificationStatus(otp_storage, r, now)
    /\ mail' = "none"
    /\ UNCHANGED <<logged, files, rooms, room_identity, room_bookings, otp_storage, now, proc, xlock>>

\* mutant: the record that expires this minute goes too
expiredOtps_Inclusive(storage, clock) ==
  {t \in storage : t.expires_at <= clock}

\* DELETE FROM otp_storage WHERE expires_at < @currentTime
expiredOtps(storage, clock) ==
  {t \in storage : t.expires_at < clock}

\* cleanupExpiredOtps: deletedCount is rowsAffected[0] of the DELETE
cleanupExpiredOtps(storage, clock) ==
  [res |-> [status |-> 200, message |-> "Cleaned up expired OTP records.",
            deletedCount |-> Cardinality(expiredOtps(storage, clock))],
   otps |-> storage \ expiredOtps(storage, clock)]

CleanupExpiredOtps(requests) ==
  \E r \in requests :
    LET out == cleanupExpiredOtps(otp_storage, now) IN
    /\ req = NoReq
    /\ before' = room_bookings
    /\ otp_before' = otp_storage
    /\ req' = r
    /\ res' = out.res
    /\ mail' = "none"
    /\ otp_storage' = out.otps
    /\ UNCHANGED <<logged, files, rooms, room_identity, room_bookings, now, proc, xlock>>

\* a minute passes between two requests
Tick ==
  /\ req = NoReq
  /\ now < MaxNow
  /\ now' = now + 1
  /\ UNCHANGED <<logged, otp_before, files, rooms, room_identity, room_bookings, otp_storage, req, res, mail, before,
                 proc, xlock>>

\* ------------------------------------------------- interleaved requests
\* Each request of Procs runs its handler one store statement at a time; the
\* statements of different requests interleave.  createBooking sends its
\* statements on the pool, outside any transaction.  updateBooking runs in a
\* transaction of the driver's default isolation level (read committed): the
\* row it has updated stays locked until commit or rollback, and a statement
\* of another request that reads room_bookings waits for the lock.
ConcCreateRequests ==
  {r \in CreateRequests :
     /\ r.room_id = 1 /\ r.total_participants = 1
     /\ r.start_datetime < r.end_datetime}

ConcUpdateRequests ==
  {r \in UpdateRequests :
     /\ r.room_id = 1 /\ r.total_participants = 1
     /\ r.start_datetime < r.end_datetime}

\* no other request holds a row of room_bookings locked
Readable(p) == \A q \in Procs \ {p} : xlock[q] = {}

Goto(p, pc) == proc' = [proc EXCEPT ![p].pc = pc]
Reply(p, response, sent) ==
  proc' = [proc EXCEPT ![p].pc = "done", ![p].res = response, ![p].mail = sent]
\* await transaction.rollback(); return res.status(...).json(...)
ReplyRolledBack(p, response) ==
  proc' = [proc EXCEPT ![p].pc = "done", ![p].res = response,
                       ![p].txn = "rolledBack"]

\* the request arrives; the route's middleware and the required-field check
\* run before the first statement is sent
ConcReceive(p) ==
  /\ proc[p].pc = "idle"
  /\ \E r \in ConcCreateRequests \cup ConcUpdateRequests :
       LET v == IF validateDateRange(r, now) # "next"
                  THEN validateDateRange(r, now)
                  ELSE validateParticipants(r) IN
       IF v # "next"
         THEN proc' = [proc EXCEPT ![p].pc = "done", ![p].req = r,
                                   ![p].res = Response(400, v)]
         ELSE proc' = [proc EXCEPT ![p].req = r,
                         ![p].pc = IF r.op = "createBooking"
                                     THEN "createRoomCheck"
                                     ELSE "updateExisting"]
  /\ UNCHANGED <<logged, otp_before, files, rooms, room_identity, room_bookings, otp_storage, now, req, res, mail,
                 before, xlock>>

\* createBooking: SELECT capacity FROM rooms, then the capacity gate
CreateRoomCheck(p) ==
  /\ proc[p].pc = "createRoomCheck"
  /\ LET r == proc[p].req
         found == roomCheck(rooms, r.room_id) IN
     IF found = {}
       THEN Reply(p, Response(404, "Room not found."), "none")
     ELSE IF exceedsCapacity(r.total_participants, (CHOOSE rm \in found : TRUE).capacity)
       THEN Reply(p, Response(400, "Total participants exceed room capacity"), "none")
     ELSE Goto(p, "createAvailability")
  /\ UNCHANGED <<logged, otp_before, files, rooms, room_identity, room_bookings, otp_storage, now, req, res, mail,
                 before, xlock>>

\* mutant: the confirmation is sent once the slot is found free, before the
\* insert
CreateAvailability_NotifiesFirst(p) ==
  /\ proc[p].pc = "createAvailability"
  /\ Readable(p)
  /\ LET r == proc[p].req IN
     IF availabilityCheck(room_bookings, r.room_id, startDateTime(r), endDateTime(r)) > 0
       THEN Reply(p, Response(409, "The room is already booked for the selected time slot."), "none")
       ELSE Goto(p, "createSendEmail")
  /\ UNCHANGED <<logged, otp_before, files, rooms, room_identity, room_bookings, otp_storage, now, req,
                 res, mail, before, xlock>>

\* createBooking: the availability count
CreateAvailability(p) ==
  /\ proc[p].pc = "createAvailability"
  /\ Readable(p)
  /\ LET r == proc[p].req IN
     IF availabilityCheck(room_bookings, r.room_id, startDateTime(r), endDateTime(r)) > 0
       THEN Reply(p, Response(409, "The room is already booked for the selected time slot."), "none")
       ELSE Goto(p, "createInsert")
  /\ UNCHANGED <<logged, otp_before, files, rooms, room_identity, room_bookings, otp_storage, now, req, res, mail,
                 before, xlock>>

\* createBooking: INSERT INTO room_bookings
CreateInsert(p) ==
  /\ proc[p].pc = "createInsert"
  /\ Len(room_bookings) < MaxBookings
  /\ room_bookings' = Append(room_bookings, insertedRow(room_bookings, proc[p].req))
  /\ Goto(p, "createSendEmail")
  /\ UNCHANGED <<logged, otp_before, files, rooms, room_identity, otp_storage, now, req, res, mail, before, xlock>>

\* createBooking: sendEmail, then the response
CreateSendEmail(p) ==
  /\ proc[p].pc = "createSendEmail"
  /\ \E send \in SendResults :
       Reply(p, IF send = "failed"
                  THEN Response(500, "Failed to send email notification.")
                  ELSE Response(201, "Booking created and confirmed successfully!"),
             send)
  /\ UNCHANGED <<logged, otp_before, files, rooms, room_identity, room_bookings, otp_storage, now, req, res, mail,
                 before, xlock>>

\* updateBooking: transaction.begin(), SELECT the confirmed booking
UpdateExisting(p) ==
  /\ proc[p].pc = "updateExisting"
  /\ Readable(p)
  /\ IF existingBooking(room_bookings, proc[p].req.eventId) = {}
       THEN ReplyRolledBack(p, Response(404, "Original booking not found or already cancelled."))
       ELSE proc' = [proc EXCEPT ![p].pc = "updateRoomCheck", ![p].txn = "open"]
  /\ UNCHANGED <<logged, otp_before, files, rooms, room_identity, room_bookings, otp_storage, now, req, res, mail,
                 before, xlock>>

\* updateBooking: SELECT capacity, name FROM rooms, then the capacity gate
UpdateRoomCheck(p) ==
  /\ proc[p].pc = "updateRoomCheck"
  /\ LET r == proc[p].req
         found == roomCheck(rooms, r.room_id) IN
     IF found = {}
       THEN ReplyRolledBack(p, Response(404, "The specified room could not be found."))
     ELSE IF newExceedsCapacity(r.total_participants, (CHOOSE rm \in found : TRUE).capacity)
       THEN ReplyRolledBack(p, Response(400, "New total participants exceed room capacity"))
     ELSE proc' = [proc EXCEPT ![p].pc = "updateAvailability",
                               ![p].newRoomName = (CHOOSE rm \in found : TRUE).name]
  /\ UNCHANGED <<logged, otp_before, files, rooms, room_identity, room_bookings, otp_storage, now, req, res, mail,
                 before, xlock>>

\* updateBooking: the availability count that leaves the booking itself out
UpdateAvailability(p) ==
  /\ proc[p].pc = "updateAvailability"
  /\ Readable(p)
  /\ LET r == proc[p].req IN
     IF newAvailabilityCheck(room_bookings, r.room_id, startDateTime(r),
                             endDateTime(r), r.eventId) > 0
       THEN ReplyRolledBack(p, Response(409, "The room is already booked for the new time slot (conflict detected)."))
       ELSE Goto(p, "updateWrite")
  /\ UNCHANGED <<logged, otp_before, files, rooms, room_identity, room_bookings, otp_storage, now, req, res, mail,
                 before, xlock>>

\* updateBooking: UPDATE room_bookings ... WHERE event_id; the row is locked
UpdateWrite(p) ==
  /\ proc[p].pc = "updateWrite"
  /\ \A q \in Procs \ {p} : proc[p].req.eventId \notin xlock[q]
  /\ LET r == proc[p].req IN
     IF rowsAffected(room_bookings, r.eventId) = 0
       THEN /\ ReplyRolledBack(p, Response(404, "Booking to update not found."))
            /\ UNCHANGED <<logged, otp_before, files, room_bookings, xlock>>
       ELSE /\ room_bookings' = updateRows(room_bookings, r, proc[p].newRoomName)
            /\ xlock' = [xlock EXCEPT ![p] = {r.eventId}]
            /\ Goto(p, "updateCommit")
  /\ UNCHANGED <<logged, otp_before, files, rooms, room_identity, otp_storage, now, req, res, mail, before>>

\* updateBooking: transaction.commit()
UpdateCommit(p) ==
  /\ proc[p].pc = "updateCommit"
  /\ xlock' = [xlock EXCEPT ![p] = {}]
  /\ proc' = [proc EXCEPT ![p].pc = "updateSendEmail", ![p].txn = "committed"]
  /\ UNCHANGED <<logged, otp_before, files, rooms, room_identity, room_bookings, otp_storage, now, req, res, mail, before>>

\* updateBooking: sendEmail, then the response
UpdateSendEmail(p) ==
  /\ proc[p].pc = "updateSendEmail"
  /\ \E send \in SendResults :
       Reply(p, IF send = "failed"
                  THEN Response(500, "Failed to send email notification.")
                  ELSE Response(200, "Booking updated successfully!"),
             send)
  /\ UNCHANGED <<logged, otp_before, files, rooms, room_identity, room_bookings, otp_storage, now, req, res, mail,
                 before, xlock>>

\* cancelBooking: transaction.begin(), SELECT the organizer's confirmed booking
CancelSelect(p) ==
  /\ proc[p].pc = "cancelSelect"
  /\ Readable(p)
  /\ LET r == proc[p].req IN
     IF bookingToCancel(room_bookings, r.eventId, r.organizer_email) = {}
       THEN ReplyRolledBack(p, Response(404, "Booking not found or not eligible for cancellation by this email."))
       ELSE proc' = [proc EXCEPT ![p].pc = "cancelWrite", ![p].txn = "open"]
  /\ UNCHANGED <<logged, otp_before, files, rooms, room_identity, room_bookings, otp_storage, now, req,
                 res, mail, before, xlock>>

\* cancelBooking: UPDATE room_bookings SET status = 'cancelled' WHERE event_id
CancelWrite(p) ==
  /\ proc[p].pc = "cancelWrite"
  /\ \A q \in Procs \ {p} : proc[p].req.eventId \notin xlock[q]
  /\ LET r == proc[p].req IN
     IF rowsAffected(room_bookings, r.eventId) = 0
       THEN /\ ReplyRolledBack(p, Response(400, "Failed to update booking status to cancelled."))
            /\ UNCHANGED <<logged, otp_before, files, room_bookings, xlock>>
       ELSE /\ room_bookings' = cancelRows(room_bookings, r.eventId)
            /\ xlock' = [xlock EXCEPT ![p] = {r.eventId}]
            /\ Goto(p, "cancelCommit")
  /\ UNCHANGED <<logged, otp_before, files, rooms, room_identity, otp_storage, now, req, res, mail, before>>

\* cancelBooking: transaction.commit()
CancelCommit(p) ==
  /\ proc[p].pc = "cancelCommit"
  /\ xlock' = [xlock EXCEPT ![p] = {}]
  /\ proc' = [proc EXCEPT ![p].pc = "cancelSendEmail", ![p].txn = "committed"]
  /\ UNCHANGED <<logged, otp_before, files, rooms, room_identity, room_bookings, otp_storage, now, req,
                 res, mail, before>>

\* cancelBooking: sendEmail, then the response
CancelSendEmail(p) ==
  /\ proc[p].pc = "cancelSendEmail"
  /\ \E send \in SendResults :
       Reply(p, IF send = "failed"
                  THEN Response(500, "Failed to send email notification.")
                  ELSE Response(200, "Booking cancelled successfully."),
             send)
  /\ UNCHANGED <<logged, otp_before, files, rooms, room_identity, room_bookings, otp_storage, now, req,
                 res, mail, before, xlock>>

\* deleteBooking: transaction.begin(), SELECT the confirmed booking
DeleteSelect(p) ==
  /\ proc[p].pc = "deleteSelect"
  /\ Readable(p)
  /\ IF adminBookingToCancel(room_bookings, proc[p].req.eventId) = {}
       THEN ReplyRolledBack(p, Response(404, "Booking not found or already cancelled."))
       ELSE proc' = [proc EXCEPT ![p].pc = "deleteWrite", ![p].txn = "open"]
  /\ UNCHANGED <<logged, otp_before, files, rooms, room_identity, room_bookings, otp_storage, now, req,
                 res, mail, before, xlock>>

\* deleteBooking: UPDATE room_bookings SET status = 'cancelled' WHERE event_id
DeleteWrite(p) ==
  /\ proc[p].pc = "deleteWrite"
  /\ \A q \in Procs \ {p} : proc[p].req.eventId \notin xlock[q]
  /\ LET r == proc[p].req IN
     IF rowsAffected(room_bookings, r.eventId) = 0
       THEN /\ ReplyRolledBack(p, Response(400, "Failed to update booking status to cancelled."))
            /\ UNCHANGED <<logged, otp_before, files, room_bookings, xlock>>
       ELSE /\ room_bookings' = adminCancelRows(room_bookings, r.eventId)
            /\ xlock' = [xlock EXCEPT ![p] = {r.eventId}]
            /\ Goto(p, "deleteCommit")
  /\ UNCHANGED <<logged, otp_before, files, rooms, room_identity, otp_storage, now, req, res, mail, before>>

\* deleteBooking: transaction.commit()
DeleteCommit(p) ==
  /\ proc[p].pc = "deleteCommit"
  /\ xlock' = [xlock EXCEPT ![p] = {}]
  /\ proc' = [proc EXCEPT ![p].pc = "deleteSendEmail", ![p].txn = "committed"]
  /\ UNCHANGED <<logged, otp_before, files, rooms, room_identity, room_bookings, otp_storage, now, req,
                 res, mail, before>>

\* deleteBooking: the admin controller's sendEmail, then the response
DeleteSendEmail(p) ==
  /\ proc[p].pc = "deleteSendEmail"
  /\ \E send \in AdminSendResults :
       Reply(p, IF send = "unconfigured"
                  THEN Response(500, "Email service is not configured for admin functions.")
                ELSE IF send = "failed"
                  THEN Response(500, "sendMail request failed")
                ELSE Response(200, "Booking cancelled by admin successfully."),
             send)
  /\ UNCHANGED <<logged, otp_before, files, rooms, room_identity, room_bookings, otp_storage, now, req,
                 res, mail, before, xlock>>

\* A request of any of the four booking mutations arrives.  POST /create and
\* PUT /:eventId run the route's middleware first; the cancel routes have none.
Receive(p, requests) ==
  /\ proc[p].pc = "idle"
  /\ \E r \in requests :
       LET v == IF r.op \notin {"createBooking", "updateBooking"} THEN "next"
                ELSE IF validateDateRange(r, now) # "next"
                  THEN validateDateRange(r, now)
                ELSE validateParticipants(r) IN
       IF v # "next"
         THEN proc' = [proc EXCEPT ![p].pc = "done", ![p].req = r,
                                   ![p].res = Response(400, v)]
         ELSE proc' = [proc EXCEPT ![p].req = r,
                         ![p].pc = CASE r.op = "createBooking" -> "createRoomCheck"
                                     [] r.op = "updateBooking" -> "updateExisting"
                                     [] r.op = "cancelBooking" -> "cancelSelect"
                                     [] OTHER -> "deleteSelect"]
  /\ UNCHANGED <<logged, otp_before, files, rooms, room_identity, room_bookings, otp_storage, now, req,
                 res, mail, before, xlock>>

\* the statements awaited inside a transaction, before its commit
TxnStatementPcs ==
  {"updateExisting", "updateRoomCheck", "updateAvailability", "updateWrite",
   "cancelSelect", "cancelWrite", "deleteSelect", "deleteWrite"}

\* error.message of a rejected store request
StoreErrorMessage == "RequestError"

\* The awaited statement is rejected by the store: the statement has written
\* nothing, the transaction it ran in is open, control goes to the catch block.
StoreFails(p) ==
  /\ proc[p].pc \in TxnStatementPcs
  /\ proc' = [proc EXCEPT ![p].pc = "catch", ![p].txn = "open"]
  /\ UNCHANGED <<logged, otp_before, files, rooms, room_identity, room_bookings, otp_storage, now, req,
                 res, mail, before, xlock>>

\* What `transaction.rolledBack` evaluates to.  No file of src defines the
\* property; it is the driver's Transaction object that has it or has it not.
RolledBackValues == {"false", "undefined"}

\* The catch block of updateBooking, cancelBooking and deleteBooking:
\* if (transaction && transaction.rolledBack === false) rollback; then 500.
Catch(p) ==
  /\ proc[p].pc = "catch"
  /\ \E rolledBack \in RolledBackValues :
       proc' = [proc EXCEPT
                  ![p].pc = "done",
                  ![p].res = Response(500, StoreErrorMessage),
                  ![p].txn = IF rolledBack = "false" THEN "rolledBack"
                             ELSE proc[p].txn]
  /\ UNCHANGED <<logged, otp_before, files, rooms, room_identity, room_bookings, otp_storage, now, req,
                 res, mail, before, xlock>>

\* the response has gone out
ConcFinish(p) ==
  /\ proc[p].pc = "done"
  /\ proc' = [proc EXCEPT ![p] = IdleProc]
  /\ UNCHANGED <<logged, otp_before, files, rooms, room_identity, room_bookings, otp_storage, now, req, res, mail,
                 before, xlock>>

\* ------------------------------------------------------------------ specs
Init ==
  /\ rooms = {[id |-> 1, name |-> "Alpha", capacity |-> 1,
               image |-> UploadsImage("alpha.png")],
              [id |-> 2, name |-> "Beta", capacity |-> 2, image |-> NoImage]}
  /\ room_identity = 2
  /\ room_bookings = <<>>
  /\ otp_storage = {}
  /\ now = 0
  /\ proc = [p \in Procs |-> IdleProc]
  /\ xlock = [p \in Procs |-> {}]
  /\ req = NoReq
  /\ res = NoRes
  /\ mail = "none"
  /\ before = <<>>
  /\ otp_before = {}
  /\ files = {"alpha.png"}
  /\ logged = "none"

\* The response has gone out: nothing of the request is kept in the process
\* (the handlers hold no state between requests).
Finish ==
  /\ req # NoReq
  /\ req' = NoReq
  /\ res' = NoRes
  /\ mail' = "none"
  /\ before' = <<>>
  /\ otp_before' = {}
  /\ logged' = "none"
  /\ UNCHANGED <<files, rooms, room_identity, room_bookings, otp_storage, now, proc, xlock>>

\* the organizer-facing booking routes, one request at a time
Next ==
  \/ CreateBooking(CreateRequests)
  \/ UpdateBooking(UpdateRequests)
  \/ CancelBooking(CancelRequests)
  \/ Finish

Spec == Init /\ [][Next]_vars

\* the admin surface beside the organizer-facing routes
NextAdmin ==
  \/ CreateBooking(CreateRequests)
  \/ UpdateBooking(UpdateRequests)
  \/ CancelBooking(CancelRequests)
  \/ CreateBookingAdmin(AdminCreateRequests)
  \/ Finish

SpecAdmin == Init /\ [][NextAdmin]_vars

\* every operation that writes rooms or room_bookings: the organizer-facing
\* routes, the admin's booking routes and the room registry
LifeCreateRequests ==
  {r \in CreateRequests :
     /\ r.total_participants = 1 /\ r.room_id \in {1, 2}
     /\ r.start_datetime < r.end_datetime /\ r.end_datetime = 2}
LifeUpdateRequests ==
  {r \in UpdateRequests :
     /\ r.total_participants = 1 /\ r.room_id \in {1, 2}
     /\ r.start_datetime < r.end_datetime /\ r.end_datetime = 2}
LifeAdminCreateRequests ==
  {r \in AdminCreateRequests : r.total_participants = 1 /\ r.end_datetime = 1}

NextLife ==
  \/ CreateBooking(LifeCreateRequests)
  \/ UpdateBooking(LifeUpdateRequests)
  \/ CancelBooking(CancelRequests)
  \/ CreateBookingAdmin(LifeAdminCreateRequests)
  \/ DeleteBooking(AdminDeleteRequests)
  \/ CreateRoom(CreateRoomRequests, {"ok"}, {TRUE})
  \/ UpdateRoom(UpdateRoomRequests, {"ok"}, {TRUE})
  \/ DeleteRoom(DeleteRoomRequests, {"ok"}, {TRUE})
  \/ Finish

SpecLife == Init /\ [][NextLife]_vars

\* the organizer-facing routes, where a reschedule or a cancel may come with
\* any address; every booking is created by an address of OrganizerEmails
IdentityCreateRequests ==
  {r \in CreateRequests :
     /\ r.room_id = 1 /\ r.total_participants = 1
     /\ r.start_datetime < r.end_datetime}
IdentityUpdateRequests ==
  {r \in [op : {"updateBooking"}, eventId : EventIdInputs, room_id : {1},
          room_name : {""}, organizer_email : Emails,
          start_datetime : Times, end_datetime : Times,
          total_participants : {1}, otp : {0}] :
     r.start_datetime < r.end_datetime}

NextIdentity ==
  \/ CreateBooking(IdentityCreateRequests)
  \/ UpdateBooking(IdentityUpdateRequests)
  \/ CancelBooking(CancelRequests)
  \/ Finish

SpecIdentity == Init /\ [][NextIdentity]_vars

\* the OTP routes beside booking creation, with the clock running
OtpCreateRequests ==
  {r \in CreateRequests :
     r.room_id = 1 /\ r.total_participants = 1 /\ r.end_datetime = 2}

NextOtp ==
  \/ SendOtp(SendOtpRequests)
  \/ VerifyOtp(VerifyOtpRequests)
  \/ CheckVerificationStatus(StatusRequests)
  \/ CleanupExpiredOtps(CleanupRequests)
  \/ CreateBooking(OtpCreateRequests)
  \/ Tick
  \/ Finish

SpecOtp == Init /\ [][NextOtp]_vars

\* the room routes with image uploads, statements that throw and unlinks
\* that fail
UploadNames == {"", "u1.png", "u2.png"}
ImageCreateRoomRequests ==
  {[RoomRequest("createRoom", 0, "Gamma", c) EXCEPT !.file = f] :
     c \in {0, 2}, f \in UploadNames}
ImageUpdateRoomRequests ==
  {[RoomRequest("updateRoom", id, n, 2) EXCEPT !.file = f] :
     id \in RoomIdInputs, n \in {"", "Alpha"}, f \in UploadNames}
ImageDeleteRoomRequests ==
  {RoomRequest("deleteRoom", id, "", 0) : id \in RoomIdInputs}

NextRooms ==
  \/ CreateRoom(ImageCreateRoomRequests, StoreOutcomes, BOOLEAN)
  \/ UpdateRoom(ImageUpdateRoomRequests, StoreOutcomes, BOOLEAN)
  \/ DeleteRoom(ImageDeleteRoomRequests, StoreOutcomes, BOOLEAN)
  \/ Finish

SpecRooms == Init /\ [][NextRooms]_vars

\* the organizer-facing routes with bodies that lack a field, dates that do
\* not parse and dates a millisecond apart
DateInputs == {NoDate, BadDate, 0, 1}
DateCreateRequests ==
  [op : {"createBooking"}, eventId : {0}, room_id : {0, 1},
   room_name : {"Alpha"}, organizer_email : {""} \cup OrganizerEmails,
   start_datetime : DateInputs, end_datetime : DateInputs,
   total_participants : {0, 1}, otp : {0},
   start_ms : {0}, end_ms : RequestMillis]
DateUpdateRequests ==
  [op : {"updateBooking"}, eventId : {1}, room_id : {0, 1},
   room_name : {""}, organizer_email : {""} \cup OrganizerEmails,
   start_datetime : DateInputs, end_datetime : DateInputs,
   total_participants : {0, 1}, otp : {0},
   start_ms : {0}, end_ms : RequestMillis]
DateCancelRequests ==
  [op : {"cancelBooking"}, eventId : {1}, room_id : {0},
   room_name : {""}, organizer_email : {""} \cup Emails,
   start_datetime : {0}, end_datetime : {0}, total_participants : {0},
   otp : {0}]

NextDates ==
  \/ CreateBooking(DateCreateRequests)
  \/ UpdateBooking(DateUpdateRequests)
  \/ CancelBooking(DateCancelRequests)
  \/ Finish

SpecDates == Init /\ [][NextDates]_vars

\* create and reschedule requests in flight together
NextConc ==
  \E p \in Procs :
    \/ ConcReceive(p)
    \/ CreateRoomCheck(p)
    \/ CreateAvailability(p)
    \/ CreateInsert(p)
    \/ CreateSendEmail(p)
    \/ UpdateExisting(p)
    \/ UpdateRoomCheck(p)
    \/ UpdateAvailability(p)
    \/ UpdateWrite(p)
    \/ UpdateCommit(p)
    \/ UpdateSendEmail(p)
    \/ ConcFinish(p)

SpecConc == Init /\ [][NextConc]_vars

\* the four booking mutations, statement by statement, where a statement
\* inside a transaction may be rejected by the store
StepRequests ==
  {r \in ConcCreateRequests \cup ConcUpdateRequests : r.end_datetime = 2}
    \cup {r \in CancelRequests : r.eventId = 1}
    \cup {r \in AdminDeleteRequests : r.eventId = 1}

NextSteps ==
  \E p \in Procs :
    \/ Receive(p, StepRequests)
    \/ CreateRoomCheck(p)
    \/ CreateAvailability(p)
    \/ CreateInsert(p)
    \/ CreateSendEmail(p)
    \/ UpdateExisting(p)
    \/ UpdateRoomCheck(p)
    \/ UpdateAvailability(p)
    \/ UpdateWrite(p)
    \/ UpdateCommit(p)
    \/ UpdateSendEmail(p)
    \/ CancelSelect(p)
    \/ CancelWrite(p)
    \/ CancelCommit(p)
    \/ CancelSendEmail(p)
    \/ DeleteSelect(p)
    \/ DeleteWrite(p)
    \/ DeleteCommit(p)
    \/ DeleteSendEmail(p)
    \/ StoreFails(p)
    \/ Catch(p)
    \/ ConcFinish(p)

SpecSteps == Init /\ [][NextSteps]_vars

\* ================================================================ claims
\* What the claims speak of, written from the tables and the request alone.
RowsOverlap(a, b) ==
  /\ a.status = "confirmed"
  /\ b.status = "confirmed"
  /\ a.room_id = b.room_id
  /\ a.start_datetime < b.end_datetime
  /\ a.end_datetime > b.start_datetime

\* the request passed the route's validation and names its required fields
WellFormed(r) ==
  /\ r.start_datetime < r.end_datetime
  /\ r.start_datetime >= now - GraceMinutes
  /\ r.total_participants >= 1

RoomExists(r) == \E rm \in rooms : rm.id = r.room_id
WithinCapacity(r) ==
  \E rm \in rooms : rm.id = r.room_id /\ r.total_participants <= rm.capacity
OverCapacity(r) ==
  \E rm \in rooms : rm.id = r.room_id /\ r.total_participants > rm.capacity

\* row b is confirmed, in the room of request r, and overlaps r's [start, end)
Conflicts(b, r) ==
  /\ b.status = "confirmed"
  /\ b.room_id = r.room_id
  /\ b.start_datetime < r.end_datetime
  /\ b.end_datetime > r.start_datetime

\* the booking a reschedule request names is there and confirmed
NamesConfirmed(r, rows) ==
  \E i \in DOMAIN rows :
    rows[i].event_id = r.eventId /\ rows[i].status = "confirmed"

\* some confirmed booking other than the one r names conflicts with r
OtherConflicts(r, rows) ==
  \E j \in DOMAIN rows : rows[j].event_id # r.eventId /\ Conflicts(rows[j], r)

Untouched == room_bookings = before /\ mail = "none"

\* C1: under any sequence of organizer-facing create, reschedule and cancel
\* requests, each run to completion, no two distinct confirmed bookings of
\* one room overlap.
NoOverlap ==
  \A i, j \in DOMAIN room_bookings :
    i # j => ~RowsOverlap(room_bookings[i], room_bookings[j])

\* C1 witness: a reschedule has just succeeded and the room it went to holds
\* two confirmed bookings.
NoOverlapWitness ==
  /\ req.op = "updateBooking"
  /\ res.status = 200
  /\ room_bookings # before
  /\ \E i, j \in DOMAIN room_bookings :
       /\ i # j
       /\ room_bookings[i].status = "confirmed"
       /\ room_bookings[j].status = "confirmed"
       /\ room_bookings[i].room_id = room_bookings[j].room_id

\* C5: a well-formed createBooking within capacity whose interval overlaps a
\* confirmed booking of the same room gets the 409 conflict response, changes
\* no row of room_bookings and sends no email.
CreateConflictRejected ==
  (/\ req.op = "createBooking"
   /\ WellFormed(req)
   /\ WithinCapacity(req)
   /\ \E i \in DOMAIN before : Conflicts(before[i], req))
  => /\ res = Response(409, "The room is already booked for the selected time slot.")
     /\ Untouched

\* C5 witness: a create was turned down for a slot that strictly contains, or
\* lies inside, a confirmed booking.
CreateConflictWitness ==
  /\ req.op = "createBooking"
  /\ res.status = 409
  /\ \E i \in DOMAIN before :
       /\ Conflicts(before[i], req)
       /\ before[i].start_datetime # req.start_datetime

\* C6: a well-formed createBooking for an existing room with more participants
\* than the room's capacity gets the capacity error and writes nothing,
\* whether or not its interval is free.
CreateOverCapacityRejected ==
  (/\ req.op = "createBooking"
   /\ WellFormed(req)
   /\ OverCapacity(req))
  => /\ res = Response(400, "Total participants exceed room capacity")
     /\ Untouched

\* C6 witness: the capacity error was given for a slot that a confirmed
\* booking of the room already takes.
CreateOverCapacityWitness ==
  /\ req.op = "createBooking"
  /\ OverCapacity(req)
  /\ WellFormed(req)
  /\ res.status = 400
  /\ \E i \in DOMAIN before : Conflicts(before[i], req)

\* C7: intervals are half-open.  A well-formed createBooking for an existing
\* room, within capacity, appends a confirmed row with the requested room and
\* interval exactly when no confirmed booking of that room overlaps
\* [start, end); otherwise it appends nothing.
CreateAcceptedIffFree ==
  (/\ req.op = "createBooking"
   /\ WellFormed(req)
   /\ WithinCapacity(req))
  => IF \E i \in DOMAIN before : Conflicts(before[i], req)
       THEN room_bookings = before
       ELSE /\ Len(room_bookings) = Len(before) + 1
            /\ SubSeq(room_bookings, 1, Len(before)) = before
            /\ LET new == room_bookings[Len(room_bookings)] IN
                 /\ new.status = "confirmed"
                 /\ new.room_id = req.room_id
                 /\ new.start_datetime = req.start_datetime
                 /\ new.end_datetime = req.end_datetime
                 /\ \A i \in DOMAIN before : new.event_id # before[i].event_id

\* C7 witness: a booking that starts where a confirmed booking of the same
\* room ends was accepted.
CreateAbuttingWitness ==
  /\ req.op = "createBooking"
  /\ res.status = 201
  /\ Len(room_bookings) = Len(before) + 1
  /\ \E i \in DOMAIN before :
       /\ before[i].status = "confirmed"
       /\ before[i].room_id = req.room_id
       /\ before[i].end_datetime = req.start_datetime

\* C8: a well-formed updateBooking whose event_id names no booking, or a
\* cancelled one, gets the not-found response and leaves room_bookings as
\* it was.
UpdateMissingNotFound ==
  (/\ req.op = "updateBooking"
   /\ WellFormed(req)
   /\ ~NamesConfirmed(req, before))
  => /\ res = Response(404, "Original booking not found or already cancelled.")
     /\ Untouched

\* C8 witness: a reschedule of a cancelled booking, into a free slot of an
\* existing room, was turned down.
UpdateCancelledWitness ==
  /\ req.op = "updateBooking"
  /\ res.status = 404
  /\ WellFormed(req)
  /\ WithinCapacity(req)
  /\ ~OtherConflicts(req, before)
  /\ \E i \in DOMAIN before :
       before[i].event_id = req.eventId /\ before[i].status = "cancelled"

\* C9: the reschedule overlap check leaves out the booking being rescheduled.
\* A well-formed updateBooking of a confirmed booking into an existing room,
\* within capacity, gets the 409 conflict response exactly when some other
\* confirmed booking of the target room overlaps the new interval; otherwise
\* the booking takes the new room and interval.
RescheduleExcludesSelf ==
  (/\ req.op = "updateBooking"
   /\ WellFormed(req)
   /\ NamesConfirmed(req, before)
   /\ WithinCapacity(req))
  => IF OtherConflicts(req, before)
       THEN /\ res = Response(409, "The room is already booked for the new time slot (conflict detected).")
            /\ Untouched
       ELSE /\ res.status # 409
            /\ \E i \in DOMAIN room_bookings :
                 /\ room_bookings[i].event_id = req.eventId
                 /\ room_bookings[i].status = "confirmed"
                 /\ room_bookings[i].room_id = req.room_id
                 /\ room_bookings[i].start_datetime = req.start_datetime
                 /\ room_bookings[i].end_datetime = req.end_datetime

\* C9 witness: a booking was rescheduled, in its own room, to an interval
\* that overlaps the one it had.
RescheduleOntoSelfWitness ==
  /\ req.op = "updateBooking"
  /\ res.status = 200
  /\ \E i \in DOMAIN before :
       /\ before[i].event_id = req.eventId
       /\ Conflicts(before[i], req)
       /\ before[i].start_datetime # req.start_datetime

\* C10: a well-formed reschedule that fails a gate (booking not confirmed,
\* target room missing, participants above the target room's capacity, or
\* overlap with another confirmed booking) gets an error response, leaves
\* every row of room_bookings as it was and sends no email.
RescheduleGateFailureRollsBack ==
  (/\ req.op = "updateBooking"
   /\ WellFormed(req)
   /\ \/ ~NamesConfirmed(req, before)
      \/ ~RoomExists(req)
      \/ OverCapacity(req)
      \/ OtherConflicts(req, before))
  => /\ res.status \in {400, 404, 409}
     /\ Untouched

\* C10 witness: a reschedule of a confirmed booking into a free slot failed
\* the capacity gate.
RescheduleCapacityWitness ==
  /\ req.op = "updateBooking"
  /\ res = Response(400, "New total participants exceed room capacity")
  /\ NamesConfirmed(req, before)
  /\ ~OtherConflicts(req, before)
  /\ room_bookings = before

\* C2: the no-overlap invariant also holds when create and reschedule requests
\* run with their store statements interleaved: of two requests in flight that
\* target overlapping intervals of one room, at most one ends with a confirmed
\* booking there.
InterleavedNoOverlap ==
  \A i \in DOMAIN room_bookings : \A j \in DOMAIN room_bookings :
    (room_bookings[i].event_id # room_bookings[j].event_id)
    => ~RowsOverlap(room_bookings[j], room_bookings[i])

\* C3: createBookingAdmin applies the gates of organizer creation: a request
\* whose room does not exist, whose total_participants exceeds the room's
\* capacity, or whose interval overlaps a confirmed booking of the room is
\* rejected and inserts nothing.
AdminCreateAppliesGates ==
  (/\ req.op = "createBookingAdmin"
   /\ \/ ~RoomExists(req)
      \/ OverCapacity(req)
      \/ \E i \in DOMAIN before : Conflicts(before[i], req))
  => /\ res.status \in {400, 404, 409}
     /\ room_bookings = before

\* C4: createBooking for organizer_email e inserts a booking only if
\* otp_storage then holds a verified, not yet expired record for e.
OtpVerifiedBeforeBooking ==
  (/\ req.op = "createBooking"
   /\ Len(room_bookings) > Len(before))
  => \E t \in otp_storage :
       /\ t.email = req.organizer_email
       /\ t.is_verified
       /\ t.expires_at > now

\* the booking request r names is there, confirmed, and r's email is its
\* organizer_email
OwnConfirmed(r, rows) ==
  \E i \in DOMAIN rows :
    /\ rows[i].event_id = r.eventId
    /\ rows[i].status = "confirmed"
    /\ rows[i].organizer_email = r.organizer_email

\* rows, with the status of the booking named eventId set to cancelled and
\* nothing else changed
CancelledIn(rows, eventId) ==
  [i \in DOMAIN rows |->
     IF rows[i].event_id = eventId
       THEN [event_id |-> rows[i].event_id, room_id |-> rows[i].room_id,
             room_name |-> rows[i].room_name,
             organizer_email |-> rows[i].organizer_email,
             start_datetime |-> rows[i].start_datetime,
             end_datetime |-> rows[i].end_datetime,
             total_participants |-> rows[i].total_participants,
             status |-> "cancelled"]
       ELSE rows[i]]

NotFoundForCancel ==
  Response(404, "Booking not found or not eligible for cancellation by this email.")

\* C11: cancelBooking(event_id, email) takes effect exactly when a booking
\* with that event_id exists, is confirmed and has organizer_email equal to
\* the supplied email.  Then that booking, and no other, becomes cancelled,
\* the response is the 200 success unless the notification failed, and a
\* second cancelBooking of the same event_id, with any email, gets the
\* not-found response.  Otherwise the response is not-found and nothing is
\* written.
CancelExactlyOwnConfirmed ==
  (req.op = "cancelBooking")
  => IF OwnConfirmed(req, before)
       THEN /\ room_bookings = CancelledIn(before, req.eventId)
            /\ room_bookings # before
            /\ mail # "failed" => res = Response(200, "Booking cancelled successfully.")
            /\ res.status \in {200, 500}
            /\ \A r2 \in CancelRequests, s \in SendResults :
                 r2.eventId = req.eventId
                 => /\ cancelBooking(room_bookings, r2, s).res = NotFoundForCancel
                    /\ cancelBooking(room_bookings, r2, s).rows = room_bookings
       ELSE /\ res = NotFoundForCancel
            /\ Untouched

\* C11 witness: a cancel by the organizer of a booking that was already
\* cancelled got the not-found response.
CancelTwiceWitness ==
  /\ req.op = "cancelBooking"
  /\ res.status = 404
  /\ \E i \in DOMAIN before :
       /\ before[i].event_id = req.eventId
       /\ before[i].status = "cancelled"
       /\ before[i].organizer_email = req.organizer_email

\* C12: cancelBooking of a confirmed booking with an email that is not its
\* organizer's is answered as cancelBooking of an event_id that names no
\* booking is, with any email: the same status and message, no row changed,
\* no email.
CancelMismatchIndistinguishable ==
  (/\ req.op = "cancelBooking"
   /\ NamesConfirmed(req, before)
   /\ ~OwnConfirmed(req, before))
  => /\ Untouched
     /\ \A r2 \in CancelRequests, s \in SendResults :
          LET absent == [r2 EXCEPT !.eventId = Len(before) + 1] IN
          cancelBooking(before, absent, s)
            = [res |-> res, rows |-> room_bookings, mail |-> mail]

\* C12 witness: a cancel of a confirmed booking with another address than
\* its organizer's was turned down.
CancelWrongEmailWitness ==
  /\ req.op = "cancelBooking"
  /\ res.status = 404
  /\ \E i \in DOMAIN before :
       /\ before[i].event_id = req.eventId
       /\ before[i].status = "confirmed"
       /\ before[i].organizer_email # req.organizer_email

\* C13: cancellation is terminal and no row is ever removed.  In every step
\* of any sequence of organizer, admin and room operations, each row of
\* room_bookings keeps its place and its event_id, and a row whose status is
\* cancelled still has status cancelled.
CancellationTerminal ==
  [][\A i \in DOMAIN room_bookings :
       /\ i \in DOMAIN room_bookings'
       /\ room_bookings'[i].event_id = room_bookings[i].event_id
       /\ room_bookings[i].status = "cancelled"
          => room_bookings'[i].status = "cancelled"]_vars

\* C13 witness: the admin has just cancelled a booking while another booking
\* was already cancelled, and both rows are still there.
CancellationTerminalWitness ==
  /\ req.op = "deleteBooking"
  /\ res.status = 200
  /\ Len(room_bookings) = Len(before)
  /\ \E i, j \in DOMAIN before :
       /\ before[i].status = "cancelled"
       /\ room_bookings[i].status = "cancelled"
       /\ before[j].status = "confirmed"
       /\ room_bookings[j].status = "cancelled"

\* C14: deleteBooking takes no organizer email.  For a confirmed booking it
\* sets status = cancelled on that row, removes no row and changes no other;
\* for an event_id that names no booking or a cancelled one it answers
\* not-found and changes nothing.
AdminCancelAnyConfirmed ==
  (req.op = "deleteBooking")
  => IF NamesConfirmed(req, before)
       THEN /\ room_bookings = CancelledIn(before, req.eventId)
            /\ room_bookings # before
            /\ mail = "sent" => res = Response(200, "Booking cancelled by admin successfully.")
            /\ res.status \in {200, 500}
       ELSE /\ res = Response(404, "Booking not found or already cancelled.")
            /\ Untouched

\* C14 witness: the admin's cancellation of an already cancelled booking was
\* answered not-found.
AdminCancelTwiceWitness ==
  /\ req.op = "deleteBooking"
  /\ res.status = 404
  /\ \E i \in DOMAIN before :
       before[i].event_id = req.eventId /\ before[i].status = "cancelled"

\* C15: the organizer fixed at creation is the identity anchor of
\* cancellation.  Every booking being created with an address of
\* OrganizerEmails, an organizer-facing cancelBooking(event_id, e) cancels a
\* booking only if e is such an address.
CancelOnlyByCreator ==
  (/\ req.op = "cancelBooking"
   /\ room_bookings # before)
  => req.organizer_email \in OrganizerEmails

\* the notification of the request was attempted and failed
MailFailed == mail \in {"failed", "unconfigured"}

\* the state change the request asked for is in room_bookings
ChangePersisted ==
  CASE req.op = "createBooking" ->
         /\ Len(room_bookings) = Len(before) + 1
         /\ SubSeq(room_bookings, 1, Len(before)) = before
         /\ LET new == room_bookings[Len(room_bookings)] IN
              /\ new.status = "confirmed"
              /\ new.room_id = req.room_id
              /\ new.organizer_email = req.organizer_email
              /\ new.start_datetime = req.start_datetime
              /\ new.end_datetime = req.end_datetime
              /\ new.total_participants = req.total_participants
    [] req.op = "updateBooking" ->
         /\ Len(room_bookings) = Len(before)
         /\ \A i \in DOMAIN before :
              IF before[i].event_id = req.eventId
                THEN /\ room_bookings[i].event_id = req.eventId
                     /\ room_bookings[i].status = "confirmed"
                     /\ room_bookings[i].room_id = req.room_id
                     /\ room_bookings[i].start_datetime = req.start_datetime
                     /\ room_bookings[i].end_datetime = req.end_datetime
                     /\ room_bookings[i].total_participants = req.total_participants
                ELSE room_bookings[i] = before[i]
         /\ NamesConfirmed(req, before)
    [] req.op \in {"cancelBooking", "deleteBooking"} ->
         /\ room_bookings = CancelledIn(before, req.eventId)
         /\ room_bookings # before
    [] OTHER -> FALSE

\* C16: a notification failure never reverses a committed state change.  When
\* the email send of createBooking, updateBooking, cancelBooking or
\* deleteBooking fails, the caller gets the 500 error response and the
\* inserted booking, the rescheduled values or the cancelled status are in
\* room_bookings.
MailFailureKeepsChange ==
  MailFailed => /\ res.status = 500
                /\ ChangePersisted

\* C16 witness: the notification of a reschedule that moved a booking failed.
MailFailureKeepsChangeWitness ==
  /\ req.op = "updateBooking"
  /\ mail = "failed"
  /\ res.status = 500
  /\ room_bookings # before

\* C18: a failed email send after a committed state change is reported as a
\* partial success: the response tells the caller that the state change
\* succeeded, as the success responses 200 and 201 do, and so differs in
\* status from the failure responses of requests that persisted nothing.
MailFailureReportedAsPartialSuccess ==
  (MailFailed /\ ChangePersisted) => res.status \in {200, 201}

\* the steps at which a handler calls sendEmail
SendPcs ==
  {"createSendEmail", "updateSendEmail", "cancelSendEmail", "deleteSendEmail"}

\* C17: persist first, notify second.  In create, reschedule, cancel and admin
\* cancel, run statement by statement: the outcome of an email send is
\* recorded only at the handler's sendEmail step and only once per request;
\* the handler comes to that step only by the very step that inserts the
\* booking (create) or commits its transaction and releases the row
\* (reschedule, cancel, admin cancel); and a request that was rejected, rolled
\* back or failed in the store has sent no email.
NotifyAfterPersist ==
  [][\A p \in Procs :
       /\ (proc'[p].mail # proc[p].mail /\ proc'[p].mail # "none")
          => (proc[p].pc \in SendPcs /\ proc[p].mail = "none")
       /\ (proc'[p].pc \in SendPcs /\ proc[p].pc \notin SendPcs)
          => IF proc[p].req.op = "createBooking"
               THEN /\ Len(room_bookings') = Len(room_bookings) + 1
                    /\ LET new == room_bookings'[Len(room_bookings')] IN
                         /\ new.status = "confirmed"
                         /\ new.room_id = proc[p].req.room_id
                         /\ new.start_datetime = proc[p].req.start_datetime
                         /\ new.end_datetime = proc[p].req.end_datetime
               ELSE /\ proc[p].txn = "open"
                    /\ proc'[p].txn = "committed"
                    /\ xlock[p] = {proc[p].req.eventId}
                    /\ xlock'[p] = {}
       /\ (\/ proc'[p].txn \in {"open", "rolledBack"}
           \/ proc'[p].res.status \in {400, 404, 409})
          => proc'[p].mail = "none"]_vars

\* C17 witness: a cancellation was committed and its email then sent.
NotifyAfterPersistWitness ==
  \E p \in Procs :
    /\ proc[p].pc = "done"
    /\ proc[p].req.op = "cancelBooking"
    /\ proc[p].txn = "committed"
    /\ proc[p].mail = "sent"
    /\ \E i \in DOMAIN room_bookings :
         /\ room_bookings[i].event_id = proc[p].req.eventId
         /\ room_bookings[i].status = "cancelled"

\* C19: when a store statement is rejected inside the transaction of a
\* reschedule, a cancel or an admin cancel, the transaction has been rolled
\* back by the time the error response is sent.
StoreFailureRollsBack ==
  \A p \in Procs :
    (/\ proc[p].pc = "done"
     /\ proc[p].res = Response(500, StoreErrorMessage))
    => proc[p].txn = "rolledBack"

\* C20: verifyOtp(email, code) answers success exactly when the record stored
\* for that email has that code and an expires_at later than the current time.
\* On success the verified flag of that record becomes true and nothing else
\* changes; on failure otp_storage is left as it was.
VerifyOtpExact ==
  [][(req = NoReq /\ req'.op = "verifyOtp")
     => LET match == {t \in otp_storage :
                        /\ t.email = req'.organizer_email
                        /\ t.otp = req'.otp
                        /\ t.expires_at > now} IN
        IF match # {}
          THEN /\ res' = Response(200, "OTP verified successfully.")
               /\ otp_storage' =
                    (otp_storage \ match)
                      \cup {[email |-> t.email, otp |-> t.otp,
                             expires_at |-> t.expires_at,
                             created_at |-> t.created_at,
                             is_verified |-> TRUE] : t \in match}
          ELSE /\ res'.status = 400
               /\ otp_storage' = otp_storage]_vars

\* C20 witness: the right code was turned down at the very minute its record
\* expired, while another address has a record of its own.
VerifyOtpExpiredWitness ==
  /\ req.op = "verifyOtp"
  /\ res = Response(400, "Invalid or expired OTP.")
  /\ \E t \in otp_storage :
       /\ t.email = req.organizer_email
       /\ t.otp = req.otp
       /\ t.expires_at = now
  /\ \E t \in otp_storage : t.email # req.organizer_email

\* ------------------------------------------------- OTP records over time
\* C21: checkVerificationStatus(email) reports verified exactly when a record
\* of that email has its verified flag set and an expires_at later than the
\* current time; it writes nothing.  A verified address is therefore no longer
\* reported verified from the minute its record expires, whatever happened
\* in between.
StatusVerifiedIffUnexpired ==
  req.op = "checkVerificationStatus"
    => /\ res.status = 200
       /\ res.isVerified =
            (\E t \in otp_storage :
               /\ t.email = req.organizer_email
               /\ t.is_verified
               /\ now < t.expires_at)
       /\ otp_storage = otp_before

\* C21 witness: the status of an address is asked at the minute its verified
\* record expires, and the answer is "not verified".
StatusLapsedWitness ==
  /\ req.op = "checkVerificationStatus"
  /\ res.isVerified = FALSE
  /\ \E t \in otp_storage :
       /\ t.email = req.organizer_email
       /\ t.is_verified
       /\ t.expires_at = now

\* the records of one address
RecordsOf(storage, email) == {t \in storage : t.email = email}

\* the code would pass verifyOtp's SELECT at this minute
Verifies(storage, email, otp, clock) ==
  \E t \in storage : t.email = email /\ t.otp = otp /\ clock < t.expires_at

\* otp_storage never holds two records of one address, and an answered sendOtp
\* has left the record of its address issued at this minute, good for
\* OtpValidMinutes, and the records of the other addresses as they were
OneRecordReplaced ==
  /\ \A e \in Emails : Cardinality(RecordsOf(otp_storage, e)) <= 1
  /\ req.op = "sendOtp"
       => /\ \E t \in otp_storage :
               /\ t.email = req.organizer_email
               /\ t.created_at = now
               /\ t.expires_at = now + OtpValidMinutes
          /\ \A e \in Emails \ {req.organizer_email} :
               RecordsOf(otp_storage, e) = RecordsOf(otp_before, e)

\* C22 as stated: at most one record per email after any sequence of sendOtp,
\* verifyOtp and cleanup calls; a second sendOtp replaces code, expiry and
\* creation time, so the code issued before no longer verifies.
ResendRetiresOldCode ==
  /\ OneRecordReplaced
  /\ req.op = "sendOtp"
       => \A old \in RecordsOf(otp_before, req.organizer_email) :
            ~Verifies(otp_storage, old.email, old.otp, now)

\* C22 amended: at most one record per email after any sequence of sendOtp,
\* verifyOtp and cleanup calls; a second sendOtp replaces code, expiry and
\* creation time, and the code issued before no longer verifies unless the
\* same code was drawn again.
ResendRetiresOtherCode ==
  /\ OneRecordReplaced
  /\ req.op = "sendOtp"
       => \A old \in RecordsOf(otp_before, req.organizer_email) :
            \/ ~Verifies(otp_storage, old.email, old.otp, now)
            \/ \E t \in otp_storage : t.email = old.email /\ t.otp = old.otp
                                        /\ t.created_at = now

\* C22 witness: a code is sent to an address that holds an unexpired record
\* with another code, issued at an earlier minute.
ResendWitness ==
  /\ req.op = "sendOtp"
  /\ \E old \in RecordsOf(otp_before, req.organizer_email) :
       /\ old.created_at < now
       /\ now < old.expires_at
       /\ \A t \in RecordsOf(otp_storage, req.organizer_email) : t.otp # old.otp

\* what GET /status/:email would answer for the address at this moment
StatusIn(storage, e, clock) ==
  checkVerificationStatus(storage, [NoReq EXCEPT !.organizer_email = e], clock).isVerified
ReportedVerified(e) == StatusIn(otp_storage, e, now)

\* C23: right after sendOtp(email) the record of that email is not verified,
\* also when it was verified before, and the status of an address goes from
\* "not verified" to "verified" only by a verifyOtp of that address that
\* succeeds with the code its record holds.
SendResetsVerification ==
  [][/\ (req = NoReq /\ req'.op = "sendOtp")
          => /\ RecordsOf(otp_storage', req'.organizer_email) # {}
             /\ \A t \in RecordsOf(otp_storage', req'.organizer_email) :
                  ~t.is_verified
             /\ ~StatusIn(otp_storage', req'.organizer_email, now')
     /\ \A e \in Emails :
          (~ReportedVerified(e) /\ ReportedVerified(e)')
            => /\ req = NoReq
               /\ req'.op = "verifyOtp"
               /\ req'.organizer_email = e
               /\ res' = Response(200, "OTP verified successfully.")
               /\ \E t \in otp_storage : t.email = e /\ t.otp = req'.otp]_vars

\* C23 witness: a code is sent to an address whose record was verified and
\* had not expired.
SendResetsVerifiedWitness ==
  /\ req.op = "sendOtp"
  /\ \E old \in RecordsOf(otp_before, req.organizer_email) :
       old.is_verified /\ now < old.expires_at
  /\ ~ReportedVerified(req.organizer_email)

\* C24: verifyOtp answers a well-formed code that does not verify with one
\* and the same response, whether the address has no record, its record holds
\* another code, or its record holds that code and has expired; nothing is
\* written.
VerifyFailuresAlike ==
  (/\ req.op = "verifyOtp"
   /\ validateOtp(req) = "next"
   /\ \/ RecordsOf(otp_before, req.organizer_email) = {}
      \/ \E t \in RecordsOf(otp_before, req.organizer_email) : t.otp # req.otp
      \/ \E t \in RecordsOf(otp_before, req.organizer_email) :
           t.otp = req.otp /\ t.expires_at <= now)
    => /\ res = Response(400, "Invalid or expired OTP.")
       /\ otp_storage = otp_before

\* C24 witness: a code is refused for an address that has no record, while
\* another address holds an unexpired record with that very code.
VerifyNoRecordWitness ==
  /\ req.op = "verifyOtp"
  /\ res = Response(400, "Invalid or expired OTP.")
  /\ RecordsOf(otp_storage, req.organizer_email) = {}
  /\ \E t \in otp_storage : t.otp = req.otp /\ now < t.expires_at

\* the two other refusals of C24: another code, and the right code too late
VerifyWrongCodeReached ==
  /\ req.op = "verifyOtp"
  /\ res = Response(400, "Invalid or expired OTP.")
  /\ \E t \in RecordsOf(otp_storage, req.organizer_email) :
       t.otp # req.otp /\ now < t.expires_at
VerifyTooLateReached ==
  /\ req.op = "verifyOtp"
  /\ res = Response(400, "Invalid or expired OTP.")
  /\ \E t \in RecordsOf(otp_storage, req.organizer_email) :
       t.otp = req.otp /\ t.expires_at < now

\* Number.prototype.toString: the count of decimal digits of a natural number
RECURSIVE DecimalDigits(_)
DecimalDigits(n) == IF n < 10 THEN 1 ELSE 1 + DecimalDigits(n \div 10)

\* what POST /verify would answer for the address and the code at this moment
VerifyAnswer(email, otp) ==
  postVerify(otp_storage,
             [NoReq EXCEPT !.op = "verifyOtp", !.organizer_email = email, !.otp = otp],
             now).res

\* C25: every stored code has exactly six decimal digits and expires 5 minutes
\* after it was issued; at every minute before expires_at a verifyOtp with the
\* stored code succeeds, and from expires_at on it fails with
\* invalid-or-expired, whether or not the code was verified before.
SixDigitsFiveMinutes ==
  /\ \A t \in otp_storage :
       /\ DecimalDigits(t.otp) = 6
       /\ t.expires_at = t.created_at + 5
       /\ now < t.expires_at
            => VerifyAnswer(t.email, t.otp) = Response(200, "OTP verified successfully.")
       /\ now >= t.expires_at
            => VerifyAnswer(t.email, t.otp) = Response(400, "Invalid or expired OTP.")
  /\ req.op = "verifyOtp"
       => \A t \in RecordsOf(otp_before, req.organizer_email) :
            t.otp = req.otp
              => res = IF now < t.expires_at
                         THEN Response(200, "OTP verified successfully.")
                         ELSE Response(400, "Invalid or expired OTP.")

\* C25 witness: the stored code is refused after its record expired, and the
\* record had been verified with that code while it was good.
VerifiedThenExpiredWitness ==
  /\ req.op = "verifyOtp"
  /\ res = Response(400, "Invalid or expired OTP.")
  /\ \E t \in RecordsOf(otp_storage, req.organizer_email) :
       /\ t.otp = req.otp
       /\ t.is_verified
       /\ t.expires_at <= now

\* C26: cleanupExpiredOtps deletes exactly the records whose expires_at is
\* earlier than the time of the call, leaves every other record as it was and
\* reports how many it deleted; called again at once it would report 0.
CleanupExact ==
  req.op = "cleanupExpiredOtps"
    => /\ otp_storage = {t \in otp_before : ~(t.expires_at < now)}
       /\ res.status = 200
       /\ res.deletedCount = Cardinality(otp_before) - Cardinality(otp_storage)
       /\ cleanupExpiredOtps(otp_storage, now).res.deletedCount = 0
       /\ cleanupExpiredOtps(otp_storage, now).otps = otp_storage

\* C26 witness: a cleanup deleted a record and kept the one that expires at
\* the minute of the call.
CleanupBoundaryWitness ==
  /\ req.op = "cleanupExpiredOtps"
  /\ res.deletedCount = 1
  /\ \E t \in otp_storage : t.expires_at = now

\* ------------------------------------------------------------ room images
\* C27: after a room create or update request that carried an uploaded image
\* and was rejected (missing name or capacity, room not found, a statement
\* that throws), the uploaded file is no longer in the upload directory,
\* unless fs.unlink itself failed and logged it.
NoOrphanedUpload ==
  (/\ req.op \in {"createRoom", "updateRoom"}
   /\ req.file # ""
   /\ res.status \notin {200, 201})
    => req.file \notin files \/ logged # "none"

\* the row of the room the request names, as the request finds it
NamedRoom(r) == {rm \in rooms : rm.id = r.room_id}

\* C28: on a room update that carries a new image, the file of the previous
\* image leaves the upload directory only when the update has committed (the
\* row then refers to the new image); whenever the update is rejected or a
\* statement throws, the previous file is still there and the row still
\* refers to it.
OldImageOutlivesFailure ==
  [][(req = NoReq /\ req'.op = "updateRoom" /\ req'.file # "")
     => \A rm \in NamedRoom(req') :
          (rm.image.dir = "/uploads/" /\ rm.image.filename \in files)
            => /\ rm.image.filename \notin files'
                    => /\ res' = Response(200, "Room updated successfully.")
                       /\ \E new \in rooms' :
                            /\ new.id = rm.id
                            /\ new.image = UploadsImage(req'.file)
               /\ res'.status # 200
                    => /\ rm.image.filename \in files'
                       /\ rooms' = rooms]_vars

\* C28 witness: a statement of an update that carried a new image threw; the
\* room still has its previous image, on disk and in its row.
UpdateFailedImageKeptWitness ==
  /\ req.op = "updateRoom"
  /\ req.file # ""
  /\ res = Response(500, "Failed to update room.")
  /\ \E rm \in rooms :
       /\ rm.id = req.room_id
       /\ rm.image.dir = "/uploads/"
       /\ rm.image.filename # req.file
       /\ rm.image.filename \in files

\* the other case of C28: the update committed and the previous image is gone
UpdateReplacedImageReached ==
  /\ req.op = "updateRoom"
  /\ res = Response(200, "Room updated successfully.")
  /\ \E rm \in rooms : rm.id = 1 /\ rm.id = req.room_id
                         /\ rm.image = UploadsImage(req.file)
  /\ "alpha.png" \notin files

\* C29: deleteRoom on an existing room removes its row and unlinks its image;
\* when the unlink fails the failure is logged, the response is still success
\* and the row stays deleted.  On an id that names no room it answers
\* not-found and removes nothing.
DeleteRoomRowAndImage ==
  [][(req = NoReq /\ req'.op = "deleteRoom")
     => IF NamedRoom(req') = {}
          THEN /\ res'.status \in {404, 500}
               /\ rooms' = rooms
               /\ files' = files
          ELSE \/ /\ res' = Response(500, "Failed to delete room.")
                  /\ rooms' = rooms
                  /\ files' = files
               \/ /\ res' = Response(200, "Room deleted successfully.")
                  /\ rooms' = rooms \ NamedRoom(req')
                  /\ \A rm \in NamedRoom(req') :
                       IF rm.image.dir = "/uploads/" /\ logged' = "none"
                         THEN files' = files \ {rm.image.filename}
                         ELSE files' = files]_vars

\* C29 witness: a room was deleted and answered with success while the
\* unlink of its image failed: the file is still there.
DeleteRoomUnlinkFailedWitness ==
  /\ req.op = "deleteRoom"
  /\ res = Response(200, "Room deleted successfully.")
  /\ logged = "Error deleting room image file:"
  /\ \A rm \in rooms : rm.id # req.room_id
  /\ "alpha.png" \in files

\* the other cases of C29: the image went with the row; no room of that id
DeleteRoomImageGoneReached ==
  /\ req.op = "deleteRoom"
  /\ req.room_id = 1
  /\ res = Response(200, "Room deleted successfully.")
  /\ logged = "none"
  /\ "alpha.png" \notin files
DeleteRoomNotFoundReached ==
  /\ req.op = "deleteRoom"
  /\ res = Response(404, "Room not found.")

\* ------------------------------------------------- validation and dates
\* the request fails one of the validations: a required field is missing, a
\* date does not parse, start >= end, or a cancel names no organizer
FailsValidation(r) ==
  IF r.op = "cancelBooking"
    THEN r.organizer_email = ""
    ELSE \/ r.room_id = 0
         \/ r.organizer_email = ""
         \/ r.total_participants = 0
         \/ r.start_datetime \in {NoDate, BadDate}
         \/ r.end_datetime \in {NoDate, BadDate}
         \/ r.start_datetime > r.end_datetime
         \/ /\ r.start_datetime = r.end_datetime
            /\ Millis(r, "start_ms") >= Millis(r, "end_ms")

\* the first half of C30: such a request is answered 400 and has written and
\* sent nothing
ValidationRejects ==
  (/\ req.op \in {"createBooking", "updateBooking", "cancelBooking"}
   /\ FailsValidation(req))
    => /\ res.status = 400
       /\ room_bookings = before
       /\ mail = "none"

\* C30: a create or reschedule request with a missing required field, an
\* unparsable date or start >= end, and a cancel request without organizer
\* email, is answered 400 with nothing written, so that no row of room_bookings
\* written by the organizer-facing routes has start >= end.
ValidatedIntervalsOnly ==
  /\ ValidationRejects
  /\ \A i \in DOMAIN room_bookings :
       room_bookings[i].start_datetime < room_bookings[i].end_datetime

\* the requests ValidationRejects is about: a body without a date, a date
\* that does not parse, and a cancel without organizer email
MissingDateReached ==
  /\ req.op = "createBooking"
  /\ req.start_datetime = NoDate
  /\ req.room_id # 0 /\ req.organizer_email # "" /\ req.total_participants # 0
  /\ req.end_datetime \notin {NoDate, BadDate}
  /\ res = Response(400, "Missing required booking fields.")
BadDateReached ==
  /\ req.op = "updateBooking"
  /\ req.end_datetime = BadDate
  /\ res = Response(400, "Invalid date format. Please use ISO date format.")
  /\ Len(room_bookings) > 0
CancelWithoutEmailReached ==
  /\ req.op = "cancelBooking"
  /\ req.organizer_email = ""
  /\ res = Response(400, "Event ID and organizer email are required for cancellation.")
  /\ Len(room_bookings) > 0

\* ------------------------------------------------ reschedule in place
\* the row a reschedule answered with success should leave of the row old:
\* the columns the reschedule is about take the values of the request, the
\* room name that of the room, and every other column stays
Rescheduled(old, r) ==
  [event_id |-> old.event_id,
   room_id |-> r.room_id,
   room_name |-> (CHOOSE rm \in rooms : rm.id = r.room_id).name,
   organizer_email |-> old.organizer_email,
   start_datetime |-> r.start_datetime,
   end_datetime |-> r.end_datetime,
   total_participants |-> r.total_participants,
   status |-> old.status]

\* C31: a reschedule answered with success has updated the booking in place:
\* room_bookings has as many rows as before, every other row is as it was, and
\* the rescheduled row keeps its event_id, its status confirmed and every
\* column but room, room name, time range and participant count, which take
\* the new values.
RescheduleInPlace ==
  (req.op = "updateBooking" /\ res.status = 200)
    => /\ Len(room_bookings) = Len(before)
       /\ \A i \in DOMAIN before :
            room_bookings[i] =
              IF before[i].event_id = req.eventId
                THEN Rescheduled(before[i], req)
                ELSE before[i]
       /\ \E i \in DOMAIN before :
            before[i].event_id = req.eventId /\ before[i].status = "confirmed"

\* what holds of C31: the same, with the organizer column taking the address
\* of the request
RescheduleInPlaceButOrganizer ==
  (req.op = "updateBooking" /\ res.status = 200)
    => /\ Len(room_bookings) = Len(before)
       /\ \A i \in DOMAIN before :
            room_bookings[i] =
              IF before[i].event_id = req.eventId
                THEN [Rescheduled(before[i], req)
                        EXCEPT !.organizer_email = req.organizer_email]
                ELSE before[i]
       /\ \E i \in DOMAIN before :
            before[i].event_id = req.eventId /\ before[i].status = "confirmed"

\* --------------------------------------------------- capacity invariant
\* C32: in every reachable state each confirmed booking has at most as many
\* participants as the room it references has capacity, whatever sequence of
\* create, reschedule, admin create and room update led there.
CapacityInvariant ==
  \A i \in DOMAIN room_bookings :
    room_bookings[i].status = "confirmed"
      => \A rm \in rooms :
           rm.id = room_bookings[i].room_id
             => room_bookings[i].total_participants <= rm.capacity

\* ------------------------------------- reschedule and cancel interleaved
\* the row of request r's event_id is confirmed in bookings.  A row is read
\* as cancelled by a writer only once the cancelling transaction has
\* committed: until then its lock keeps the writer waiting.
ConfirmedIn(bookings, eventId) ==
  \E i \in DOMAIN bookings :
    bookings[i].event_id = eventId /\ bookings[i].status = "confirmed"

\* C33: a reschedule mutates a booking only while it is confirmed, also when
\* it interleaves statement by statement with a cancel of the same event_id:
\* the UPDATE of a reschedule never writes a row whose cancellation has
\* committed, so no reschedule reports success for such a booking.
RescheduleOnlyConfirmed ==
  [][\A p \in Procs :
       (proc[p].pc = "updateWrite" /\ proc'[p].pc = "updateCommit")
         => ConfirmedIn(room_bookings, proc[p].req.eventId)]_vars

\* ------------------------------------------------ two cancels interleaved
\* request p is a cancel (organizer's or admin's) that was answered success
CancelSucceeded(p) ==
  /\ proc[p].req.op \in {"cancelBooking", "deleteBooking"}
  /\ proc[p].pc = "done"
  /\ proc[p].res.status = 200
  /\ proc[p].mail = "sent"

\* C34: of two cancel requests for the same booking in flight together, at
\* most one reports success and sends the cancellation email.
CancelledOnce ==
  \A p \in Procs : \A q \in Procs \ {p} :
    ~(/\ CancelSucceeded(p)
      /\ CancelSucceeded(q)
      /\ proc[p].req.eventId = proc[q].req.eventId)

\* ------------------------------------------------- room_name of a booking
\* create and reschedule beside a room that is renamed: the body of a create
\* carries whatever room_name the client sends, the name the form showed
\* before the rename or any other
NameCreateRequests ==
  [op : {"createBooking"}, eventId : {0}, room_id : {1, 2},
   room_name : RoomNames \cup {"Gamma"}, organizer_email : OrganizerEmails,
   start_datetime : {0, 1}, end_datetime : {2},
   total_participants : {1}, otp : {0}]
NameUpdateRequests ==
  {r \in UpdateRequests :
     /\ r.room_id \in {1, 2} /\ r.total_participants = 1
     /\ r.end_datetime = 2 /\ r.start_datetime < 2}
RenameRoomRequests ==
  {RoomRequest("updateRoom", 1, n, 1) : n \in {"Alpha", "Gamma"}}

NextNames ==
  \/ CreateBooking(NameCreateRequests)
  \/ UpdateBooking(NameUpdateRequests)
  \/ UpdateRoom(RenameRoomRequests, {"ok"}, {TRUE})
  \/ Finish

SpecNames == Init /\ [][NextNames]_vars

\* the row of event_id eventId holds the name that rooms holds for its room
NameOfRoom(bookings, eventId) ==
  \A i \in DOMAIN bookings :
    bookings[i].event_id = eventId
      => \E rm \in rooms :
           rm.id = bookings[i].room_id /\ rm.name = bookings[i].room_name

\* C35: after a create or a reschedule answered with success, the booking's
\* room_name is the name that rooms holds for the booking's room_id.
RoomNameSnapshot ==
  /\ (req.op = "createBooking" /\ res.status = 201)
       => NameOfRoom(room_bookings, Len(room_bookings))
  /\ (req.op = "updateBooking" /\ res.status = 200)
       => NameOfRoom(room_bookings, req.eventId)

\* what holds of C35: the reschedule half
RescheduleNameSnapshot ==
  (req.op = "updateBooking" /\ res.status = 200)
    => NameOfRoom(room_bookings, req.eventId)

\* ------------------------------------------------ cancellation frees a slot
\* some cancelled booking of rows held the room and the interval of request r
CancelledSlot(rows, r) ==
  \E i \in DOMAIN rows :
    /\ rows[i].status = "cancelled"
    /\ rows[i].room_id = r.room_id
    /\ rows[i].start_datetime = r.start_datetime
    /\ rows[i].end_datetime = r.end_datetime

\* C36: once a booking is cancelled, by its organizer or by the admin, a
\* well-formed create or reschedule into its room and interval is accepted
\* when capacity is respected and no other confirmed booking overlaps: the
\* change is in room_bookings and the answer is success, unless the email
\* after the write failed.
CancelFreesSlot ==
  (/\ req.op \in {"createBooking", "updateBooking"}
   /\ WellFormed(req)
   /\ WithinCapacity(req)
   /\ CancelledSlot(before, req)
   /\ ~OtherConflicts(req, before)
   /\ req.op = "updateBooking" => NamesConfirmed(req, before))
  => /\ ChangePersisted
     /\ \/ res.status = IF req.op = "createBooking" THEN 201 ELSE 200
        \/ MailFailed

\* C36 witness: a create was answered 201 for the room and interval of a
\* cancelled booking.
CancelFreesSlotWitness ==
  /\ req.op = "createBooking"
  /\ res.status = 201
  /\ CancelledSlot(before, req)

\* a reschedule was answered 200 into the room and interval of a cancelled
\* booking
RescheduleIntoCancelledReached ==
  /\ req.op = "updateBooking"
  /\ res.status = 200
  /\ CancelledSlot(before, req)
  /\ room_bookings # before

\* ------------------------------------------- sendOtp whose email fails
\* the address of the request has one record, issued at this minute, good
\* for OtpValidMinutes and not verified
FreshRecord ==
  \E t \in otp_storage :
    /\ RecordsOf(otp_storage, req.organizer_email) = {t}
    /\ t.created_at = now
    /\ t.expires_at = now + OtpValidMinutes
    /\ ~t.is_verified

\* C37 as stated: when the email of sendOtp fails the caller gets the error,
\* yet the record of the address holds the new code, not verified, so the
\* code issued before no longer verifies and the address is no longer
\* reported verified.
SendFailureInvalidates ==
  (req.op = "sendOtp" /\ mail = "failed")
    => /\ res = Response(500, "Failed to send OTP.")
       /\ FreshRecord
       /\ ~ReportedVerified(req.organizer_email)
       /\ \A old \in RecordsOf(otp_before, req.organizer_email) :
            ~Verifies(otp_storage, old.email, old.otp, now)

\* C37 amended: when the email of sendOtp fails the caller gets the error,
\* yet the record of the address holds the new code, not verified; the
\* address is no longer reported verified, and the code issued before no
\* longer verifies unless the same code was drawn again.
SendFailureHoldsNewCode ==
  (req.op = "sendOtp" /\ mail = "failed")
    => /\ res = Response(500, "Failed to send OTP.")
       /\ FreshRecord
       /\ ~ReportedVerified(req.organizer_email)
       /\ \A old \in RecordsOf(otp_before, req.organizer_email) :
            \/ ~Verifies(otp_storage, old.email, old.otp, now)
            \/ \E t \in otp_storage : t.email = old.email /\ t.otp = old.otp
                                        /\ t.created_at = now

\* C37 witness: the email failed for an address whose record was verified and
\* unexpired, and the record now holds another code.
SendFailureWitness ==
  /\ req.op = "sendOtp"
  /\ mail = "failed"
  /\ res.status = 500
  /\ \E old \in RecordsOf(otp_before, req.organizer_email) :
       /\ old.is_verified
       /\ now < old.expires_at
       /\ \A t \in RecordsOf(otp_storage, req.organizer_email) : t.otp # old.otp

\* -------------------------------------------------- verifyOtp, repeated
\* the records of storage without their verified flag
Unflagged(storage) == {[t EXCEPT !.is_verified = FALSE] : t \in storage}

\* the pair of request r was verified before and its record has not expired
VerifiedBefore(storage, r, clock) ==
  \E t \in storage :
    /\ t.email = r.organizer_email
    /\ t.otp = r.otp
    /\ t.is_verified
    /\ clock < t.expires_at

\* C38: a verifyOtp that succeeds does not consume the code.  Verifying the
\* same address and code again before expires_at succeeds again and leaves
\* the record verified, and no verifyOtp changes the code, the expiry or the
\* creation time of any record, or takes a verified flag away.
VerifyIdempotent ==
  req.op = "verifyOtp"
    => /\ VerifiedBefore(otp_before, req, now)
            => /\ res = Response(200, "OTP verified successfully.")
               /\ otp_storage = otp_before
       /\ Unflagged(otp_storage) = Unflagged(otp_before)
       /\ \A t \in otp_before :
            t.is_verified => t \in otp_storage

\* C38 witness: a pair that was verified at an earlier minute is verified
\* again and answered success.
VerifyAgainWitness ==
  /\ req.op = "verifyOtp"
  /\ res.status = 200
  /\ VerifiedBefore(otp_before, req, now)
  /\ \E t \in otp_storage :
       t.email = req.organizer_email /\ t.is_verified /\ t.created_at < now

\* a first verification has set the flag and left code and expiry alone
FirstVerifyReached ==
  /\ req.op = "verifyOtp"
  /\ res.status = 200
  /\ otp_storage # otp_before

\* ------------------------------------------- bookings of a deleted room
\* the booking request r names is confirmed in rows and its room_id is the
\* id of no room
NamesOrphan(r, rows) ==
  \E i \in DOMAIN rows :
    /\ rows[i].event_id = r.eventId
    /\ rows[i].status = "confirmed"
    /\ \A rm \in rooms : rm.id # rows[i].room_id

\* C39: deleteRoom leaves room_bookings as it is, so a confirmed booking may
\* reference a room that is gone.  Such a booking is still cancelled by its
\* organizer and by the admin, and a well-formed reschedule of it into the
\* deleted room is answered room not found and writes nothing.
DeleteRoomKeepsBookings ==
  /\ req.op = "deleteRoom" => room_bookings = before
  /\ (/\ req.op = "cancelBooking"
      /\ NamesOrphan(req, before)
      /\ OwnConfirmed(req, before))
       => /\ ChangePersisted
          /\ res.status = 200 \/ MailFailed
  /\ (req.op = "deleteBooking" /\ NamesOrphan(req, before))
       => /\ ChangePersisted
          /\ res.status = 200 \/ MailFailed
  /\ (/\ req.op = "updateBooking"
      /\ WellFormed(req)
      /\ NamesOrphan(req, before)
      /\ \E i \in DOMAIN before :
           before[i].event_id = req.eventId /\ before[i].room_id = req.room_id)
       => /\ res = Response(404, "The specified room could not be found.")
          /\ Untouched

\* C39 witness: a room was deleted while a confirmed booking referenced it,
\* and the booking is as it was.
DeleteRoomOrphansWitness ==
  /\ req.op = "deleteRoom"
  /\ res.status = 200
  /\ \E i \in DOMAIN room_bookings :
       /\ room_bookings[i].status = "confirmed"
       /\ room_bookings[i].room_id = req.room_id
       /\ \A rm \in rooms : rm.id # req.room_id

\* the organizer cancelled a booking of a deleted room
OrphanCancelledReached ==
  /\ req.op = "cancelBooking"
  /\ res.status = 200
  /\ NamesOrphan(req, before)

\* the admin cancelled a booking of a deleted room
OrphanCancelledByAdminReached ==
  /\ req.op = "deleteBooking"
  /\ res.status = 200
  /\ NamesOrphan(req, before)

\* a reschedule of a booking into its deleted room was answered 404
OrphanRescheduleReached ==
  /\ req.op = "updateBooking"
  /\ res.status = 404
  /\ NamesOrphan(req, before)
  /\ \E i \in DOMAIN before :
       before[i].event_id = req.eventId /\ before[i].room_id = req.room_id
====
